---- MODULE Spec2Model ----
(***************************************************************************)
(* Verification model of the Quick Emoji plugin (obsidian-quick-emoji).    *)
(*                                                                         *)
(* The plugin is a set of cooperating components that share no state in    *)
(* the parts modelled here, so each component has a specification of its   *)
(* own over its own variables; the variables of the other components stay  *)
(* at their initial values in that specification.                          *)
(*                                                                         *)
(*   SpecService  services/emoji-service.ts   getSearchIndex single-flight *)
(*   SpecServiceLive  the same, every started dataset load terminating    *)
(*   SpecSuggest  ui/emoji-suggester.ts       debounce and stale results   *)
(*   SpecTrigger  ui/emoji-suggester.ts       onTrigger                    *)
(*   SpecRecents  main.ts, storage/migration.ts   the RecentList           *)
(*   SpecStatic   rendering/markdown-processor.ts  the static pass         *)
(*   SpecLive     rendering/codemirror-extension.ts  the live pass         *)
(*   SpecSearch   ui/emoji-suggester.ts           performSearch            *)
(*   SpecSkin     utils, rendering                skin tone resolution     *)
(*   SpecSkip     rendering/emoji-renderer.ts     boundary detection       *)
(*   SpecMap      rendering/emoji-renderer.ts     getEmojiMap              *)
(*   SpecSanitize utils, ui/emoji-suggester.ts    the inserted shortcode   *)
(*   SpecSave     main.ts, ui/emoji-suggester.ts  failing saves            *)
(*   SpecSession  ui/emoji-suggester.ts           one suggest session      *)
(***************************************************************************)
EXTENDS Integers, Sequences, FiniteSets, TLC

(***************************************************************************)
(* Generic helpers.                                                        *)
(***************************************************************************)
Range(s) == { s[i] : i \in DOMAIN s }

Min2(a, b) == IF a <= b THEN a ELSE b

Max2(a, b) == IF a >= b THEN a ELSE b

(***************************************************************************)
(* Bounds of the model.                                                    *)
(***************************************************************************)
\* number of getSearchIndex() calls in one run of SpecService
MaxCalls == 4
\* number of getSuggestions() calls in one run of SpecSuggest
MaxSuggestCalls == 3
\* the step of the clock of SpecSuggest, in milliseconds
TickMs == 50
\* length of the editor line of SpecTrigger
MaxLineLen == 4
\* length of the line given to shouldSkipLine in SpecSkip
MaxSkipLineLen == 5
\* length of the text node given to shouldSkipNode in SpecSkip, and of the
\* parent's text before it and after it
MaxNodeTextLen == 1
MaxContextLen == 2
\* number of lines of the document of SpecLive
MaxDocLines == 2
\* number of initializeEmojiMap() calls in flight in SpecLive
MaxMapLoads == 2
\* number of getEmojiMap() calls and of clearEmojiMapCache() calls in one
\* run of SpecMap
MaxMapCalls == 4
MaxMapClears == 1
\* length of the ids and names given to sanitizeShortcode in SpecSanitize
\* (longer ones are drawn from SampleNames and LongNames)
MaxNameLen == 3
\* number of skin variants of an emoji of SpecSkin
MaxSkins == 6
\* length of the text node of SpecStatic
MaxTextLen == 6
\* number of emoji ids of SpecRecents
NumIds == 3
\* largest value of the recentCount slider in SpecRecents (the code: 50)
MaxRecentCount == 10
\* number of failing writes to the local store in one run of SpecRecents
MaxStoreFailures == 1
\* number of selections that reach saveRecentEmoji in one run of SpecRecents
MaxSelections == 2

(***************************************************************************)
(* Program constants.                                                      *)
(***************************************************************************)
\* the delay handed to window.setTimeout in getSuggestions
DEBOUNCE_MS == 150
\* .slice(0, 50) of sanitizeShortcode
MAX_SHORTCODE_LENGTH == 50
\* slider.setLimits(5, 50, 5) of the "Recent emoji count" setting
SLIDER_MIN == 5

SLIDER_STEP == 5
\* cleanupRecentEmojis keeps ids with length < 50
MAX_ID_LENGTH == 50

VARIABLES
    \* ---- services/emoji-service.ts (module-level state) ----
    searchIndex,        \* "null" or "index": the cached SearchIndex
    isInitializing,     \* BOOLEAN
    pendingResolvers,   \* sequence of caller ids waiting for the load
    \* the calls of getSearchIndex(), by caller id (index):
    \*   "loading" the call started a load and awaits it,
    \*   "waiting" the call is queued in pendingResolvers,
    \*   "index" / "null" the value the call's promise resolved to
    callers,
    loads,              \* caller ids whose dataset load is in flight
    notices,            \* number of Notices shown
    loadsStarted,       \* number of dataset loads started
    \* history: for a queued caller the initiator it joined (0: none)
    joined,
    \* history: loads that overlapped a clearSearchIndex()
    dirty,
    \* history: loads that were in flight at a clearSearchIndex()
    abandoned,
    \* history: outcome of each finished load, by initiator id
    outcome,
    \* history: a load has failed since the last clearSearchIndex()
    failed,
    \* history: clearSearchIndex() ran and getSearchIndex() was not called
    \* since
    afterClear,
    \* ---- ui/emoji-suggester.ts (EmojiSuggester fields) ----
    debounceTimer,      \* 0 (null) or the id of the timer set last
    lastSearchPromise,  \* 0 (null) or the id of a dispatched search
    timers,             \* the host's pending timers: [id, call, remaining]
    \* the getSuggestions() calls, by call id:
    \*   [query, age, superseded, closed]; the last three are history: the
    \*   ms the call has waited for its window, whether a newer non-empty
    \*   call arrived, or close() was called, before its search was dispatched
    suggestCalls,
    \* the performSearch() runs, by search id:
    \*   [call, query, state, waited, latestAtEnd]
    searches,
    \* ---- the editor line under the cursor and the suggest session ----
    line,               \* the line's characters
    cursor,             \* cursor.ch, 0-based column
    context,            \* the EditorSuggestTriggerInfo returned, or NoTrigger
    \* ---- main.ts (QuickEmojiPlugin) and the local store ----
    recentEmojis,       \* plugin.recentEmojis: sequence of emoji ids
    recentCount,        \* plugin.settings.recentCount
    recentStore,        \* the value under storageKey in the local store
    pluginPhase,        \* "constructed", "loaded", or "failed" (onload threw)
    storeFailures,      \* number of writes to the local store that threw
    selections,         \* number of selections that reached saveRecentEmoji
    \* history: the last operation on the RecentList,
    \*   [op, id, dropped]: for a selection that reached saveRecentEmoji the
    \*   selected id and whether the cap cut an entry off
    lastOp,
    insertionFormat,    \* plugin.settings.insertionFormat
    editorText,         \* the text the last write to the editor inserted
    \* history: the last run of migrateRecentEmojis(),
    \*   [ran, before, result, after]: the store before it, what it
    \*   returned, the store it left
    migration,
    \* ---- rendering/markdown-processor.ts: one run of processTextNode ----
    statPc,             \* "idle", "resolving" (at Promise.all), "done"
    original,           \* textNode.nodeValue
    statPending,        \* the matches whose resolution has not completed
    replacements,       \* the replacements array, in order of completion
    fragment,           \* what the text node was replaced with
    \* ---- rendering/codemirror-extension.ts: one EmojiDecorator ----
    doc,                \* view.state.doc: the lines of the document
    viewMode,           \* activeView.getMode(): "source" or "preview"
    livePreview,        \* .markdown-source-view has class is-live-preview
    lastMode,           \* this.lastMode: "null", "source" or "preview"
    emojiMap,           \* this.emojiMap: "empty" or "loaded"
    mapLoads,           \* initializeEmojiMap() calls in flight
    decorations,        \* this.decorations: set of [line, from, to, shortcode]
    \* history: update() has run since the mode or sub-mode last changed
    settled,
    \* ---- ui/emoji-suggester.ts: one performSearch(query) call ----
    favorites,          \* plugin.settings.favorites: sequence of emoji ids
    psPc,               \* "idle", "favorites", "recents", "search", "done"
    psQuery,            \* the query of the call
    psIndex,            \* getSearchIndex() gives the index (or null)
    psLoop,             \* the rest of the array the running loop iterates
    results,            \* the local results: sequence of EmojiSuggestion
    shown,              \* the stars rendered in the popup: [id, addOnly]
    starClick,          \* history: the star click the suggester just handled
    psFavorites,        \* history: the favorites array the call iterates
    psRecents,          \* history: the recentEmojis array the call iterates
    \* ---- skin tone resolution: one call of one of the three functions ----
    skPc,               \* "input" or the name of the function that ran
    skEmoji,            \* the emoji argument (or the map entry of the id)
    skTone,             \* the skinTone argument
    skResult,           \* what the call returned
    \* ---- boundary detection: one call of shouldSkipLine / shouldSkipNode ----
    ckPc,               \* "input" or the name of the function that ran
    ckLine,             \* the lineText argument
    ckNode,             \* the node argument: [hasParent, inCode, before,
                        \*   text, after], the parent's text being
                        \*   before \o text \o after
    ckResult,           \* what the call returned
    \* ---- rendering/emoji-renderer.ts: the shared emoji map ----
    emojiMapCache,      \* "null" or "map"
    \* the calls of getEmojiMap(), by call id: [caller, imported, state,
    \*   lifetime]; whether the call imported the dataset, "importing",
    \*   "returned" or "thrown", and (history) the number of clears before it
    mapCalls,
    mapClears,          \* number of clearEmojiMapCache() calls
    \* ---- the text inserted in shortcode format: one call ----
    snPc,               \* "input" or the name of the function that ran
    snEmoji,            \* the emoji argument: [id, name], '' for no id
    snText              \* what the call returned or inserted

svcVars == <<searchIndex, isInitializing, pendingResolvers, callers, loads,
             notices, loadsStarted, joined, dirty, outcome, failed,
             afterClear, abandoned>>

sugVars == <<debounceTimer, lastSearchPromise, timers, suggestCalls, searches>>

trigVars == <<line, cursor, context>>

recVars == <<recentEmojis, recentCount, recentStore, pluginPhase,
             storeFailures, selections, lastOp, insertionFormat, editorText,
             migration>>

statVars == <<statPc, original, statPending, replacements, fragment>>

liveVars == <<doc, viewMode, livePreview, lastMode, emojiMap, mapLoads,
              decorations, settled>>

searchVars == <<favorites, psPc, psQuery, psIndex, psLoop, results, shown,
                starClick, psFavorites, psRecents>>

skinVars == <<skPc, skEmoji, skTone, skResult>>

skipVars == <<ckPc, ckLine, ckNode, ckResult>>

mapVars == <<emojiMapCache, mapCalls, mapClears>>

sanVars == <<snPc, snEmoji, snText>>

vars == <<svcVars, sugVars, trigVars, recVars, statVars, liveVars, searchVars,
          skinVars, skipVars, mapVars, sanVars>>

ServiceOnly ==
    UNCHANGED <<sugVars, trigVars, recVars, statVars, liveVars, searchVars,
                skinVars, skipVars,
                mapVars, sanVars>>

SuggestOnly ==
    UNCHANGED <<svcVars, trigVars, recVars, statVars, liveVars, searchVars,
                skinVars, skipVars,
                mapVars, sanVars>>

TriggerOnly ==
    UNCHANGED <<svcVars, sugVars, recVars, statVars, liveVars, searchVars,
                skinVars, skipVars,
                mapVars, sanVars>>

RecentsOnly ==
    UNCHANGED <<svcVars, sugVars, trigVars, statVars, liveVars, searchVars,
                skinVars, skipVars,
                mapVars, sanVars>>

StaticOnly ==
    UNCHANGED <<svcVars, sugVars, trigVars, recVars, liveVars, searchVars,
                skinVars, skipVars,
                mapVars, sanVars>>

LiveOnly ==
    UNCHANGED <<svcVars, sugVars, trigVars, recVars, statVars, searchVars,
                skinVars, skipVars,
                mapVars, sanVars>>

SkinOnly ==
    UNCHANGED <<svcVars, sugVars, trigVars, recVars, statVars, liveVars,
                searchVars, skipVars,
                mapVars, sanVars>>

SearchOnly ==
    UNCHANGED <<svcVars, sugVars, trigVars, recVars, statVars, liveVars,
                skinVars, skipVars,
                mapVars, sanVars>>

SkipOnly ==
    UNCHANGED <<svcVars, sugVars, trigVars, recVars, statVars, liveVars,
                searchVars, skinVars,
                mapVars, sanVars>>

MapOnly ==
    UNCHANGED <<svcVars, sugVars, trigVars, recVars, statVars, liveVars,
                searchVars, skinVars, skipVars, sanVars>>

SanitizeOnly ==
    UNCHANGED <<svcVars, sugVars, trigVars, recVars, statVars, liveVars,
                searchVars, skinVars, skipVars, mapVars>>

(***************************************************************************)
(* Characters.  A string is a sequence of one-character strings.           *)
(***************************************************************************)
\* \w of a JavaScript regular expression, [A-Za-z0-9_], as far as the
\* model's texts use it
WordChars == {"a", "b", "s", "m", "e", "o", "j", "i", "A", "1", "_"}

\* \s, as far as the model's texts use it
WhitespaceChars == {" ", "\t"}

\* the character class of SHORTCODE_REGEX, [a-zA-Z0-9_+-]
ShortcodeChars == WordChars \cup {"+", "-"}

(***************************************************************************)
(* services/emoji-service.ts                                               *)
(***************************************************************************)
InitService ==
    /\ searchIndex = "null"
    /\ isInitializing = FALSE
    /\ pendingResolvers = <<>>
    /\ callers = <<>>
    /\ loads = {}
    /\ notices = 0
    /\ loadsStarted = 0
    /\ joined = <<>>
    /\ dirty = {}
    /\ outcome = <<>>
    /\ failed = FALSE
    /\ afterClear = FALSE
    /\ abandoned = {}

\* The branch getSearchIndex() takes: the cached instance, the waiter queue,
\* or a new load.
GetSearchIndexNoGuardBranch(si, init) ==
    IF si # "null" THEN "cached" ELSE "load"

GetSearchIndexBranch(si, init) ==
    IF si # "null" THEN "cached"
    ELSE IF init THEN "wait"
    ELSE "load"

\* The most recently started load still in flight.
LatestLoad == IF loads = {} THEN 0
              ELSE CHOOSE i \in loads : \A j \in loads : j <= i

\* getSearchIndex() up to its first suspension point.
GetSearchIndex ==
    /\ Len(callers) < MaxCalls
    /\ LET c == Len(callers) + 1
           b == GetSearchIndexBranch(searchIndex, isInitializing)
       IN
       /\ outcome' = Append(outcome, "none")
       /\ CASE b = "cached" ->
                 /\ callers' = Append(callers, searchIndex)
                 /\ joined' = Append(joined, 0)
                 /\ UNCHANGED <<isInitializing, pendingResolvers, loads,
                                loadsStarted, dirty>>
            [] b = "wait" ->
                 /\ pendingResolvers' = Append(pendingResolvers, c)
                 /\ callers' = Append(callers, "waiting")
                 /\ joined' = Append(joined, LatestLoad)
                 /\ UNCHANGED <<isInitializing, loads, loadsStarted, dirty>>
            [] b = "load" ->
                 /\ isInitializing' = TRUE
                 /\ callers' = Append(callers, "loading")
                 /\ joined' = Append(joined, 0)
                 /\ loads' = loads \cup {c}
                 /\ loadsStarted' = loadsStarted + 1
                 \* a load that starts while a load abandoned by a clear is
                 \* still in flight overlaps that clear's aftermath
                 /\ dirty' = IF loads \cap dirty # {} THEN dirty \cup {c}
                             ELSE dirty
                 /\ UNCHANGED pendingResolvers
    /\ afterClear' = FALSE
    /\ UNCHANGED <<searchIndex, notices, failed, abandoned>>
    /\ ServiceOnly

\* The value the finally block hands to every queued resolver.
FinallyResult(si) == si

\* The waiters the finally block of initiator c resolves: every queued
\* resolver; the mutant skips the queue when a clear overtook the load.
DrainedUnlessAbandoned(c) ==
    IF c \in abandoned THEN {} ELSE Range(pendingResolvers)

Drained(c) == Range(pendingResolvers)

\* The load of initiator c finishes: the try body's tail or the catch block,
\* then the finally block, with no suspension point in between.
LoadComplete(c, ok) ==
    /\ c \in loads
    /\ LET si == IF ok THEN "index" ELSE searchIndex
           res == FinallyResult(si)
       IN
       /\ searchIndex' = si
       /\ callers' = [ k \in DOMAIN callers |->
                         IF k = c THEN (IF ok THEN si ELSE "null")
                         ELSE IF k \in Drained(c) THEN res
                         ELSE callers[k] ]
    /\ notices' = IF ok THEN notices ELSE notices + 1
    /\ isInitializing' = FALSE
    /\ pendingResolvers' =
          SelectSeq(pendingResolvers, LAMBDA k : k \notin Drained(c))
    /\ loads' = loads \ {c}
    /\ outcome' = [outcome EXCEPT ![c] = IF ok THEN "ok" ELSE "failed"]
    /\ failed' = (failed \/ ~ok)
    /\ UNCHANGED <<loadsStarted, joined, dirty, afterClear, abandoned>>
    /\ ServiceOnly

\* clearSearchIndex()
ClearSearchIndex ==
    /\ searchIndex' = "null"
    /\ isInitializing' = FALSE
    /\ dirty' = dirty \cup loads
    /\ failed' = FALSE
    /\ afterClear' = TRUE
    /\ abandoned' = abandoned \cup loads
    /\ UNCHANGED <<pendingResolvers, callers, loads, notices, loadsStarted,
                   joined, outcome>>
    /\ ServiceOnly

NextService ==
    \/ GetSearchIndex
    \/ \E c \in 1..MaxCalls, ok \in BOOLEAN : LoadComplete(c, ok)
    \/ ClearSearchIndex

C5_NoRetryAfterFailure ==
    [][(failed /\ failed') =>
          (loadsStarted' = loadsStarted /\ notices' = notices)]_vars

(***************************************************************************)
(* C17: after clearSearchIndex() and until the next getSearchIndex() call, *)
(* isSearchIndexReady() is false, and that next call starts a fresh        *)
(* dataset load.                                                           *)
(***************************************************************************)
C17_ClearForcesReload ==
    [][afterClear =>
         /\ searchIndex = "null"
         /\ Len(callers') > Len(callers) => loadsStarted' = loadsStarted + 1
      ]_vars

(***************************************************************************)
(* C32: the cache is populated only by the completion of a load that was   *)
(* not in flight at any clearSearchIndex(): a load that a clear overtook   *)
(* leaves isSearchIndexReady() false when it completes.                    *)
(***************************************************************************)
C32_AbandonedLoadLeavesCacheEmpty ==
    [][(searchIndex = "null" /\ searchIndex' # "null") =>
          \E c \in loads \ loads' : c \notin abandoned]_vars

(***************************************************************************)
(* C33: provided every started dataset load terminates, every call of      *)
(* getSearchIndex() returns: a call that awaits its own load or is queued  *)
(* as a waiter is eventually resolved, whatever calls, completions and     *)
(* clears are interleaved.                                                 *)
(***************************************************************************)
Unreturned(k) ==
    k \in DOMAIN callers /\ callers[k] \in {"loading", "waiting"}

C33_EveryCallReturns ==
    \A k \in 1..MaxCalls : Unreturned(k) ~> ~Unreturned(k)

\* A waiter whose load was overtaken by a clear has been resolved while a
\* later call still awaits its own load.
C33_Witness ==
    \E w, k \in DOMAIN callers :
        /\ joined[w] \in abandoned
        /\ callers[w] \notin {"loading", "waiting"}
        /\ k > w
        /\ callers[k] = "loading"

(***************************************************************************)
(* ui/emoji-suggester.ts: getSuggestions, the debounce timer, close        *)
(***************************************************************************)
\* the queries handed to getSuggestions: '' and two non-empty ones
Queries == {"", "s", "sm"}

InitSuggest ==
    /\ debounceTimer = 0
    /\ lastSearchPromise = 0
    /\ timers = {}
    /\ suggestCalls = <<>>
    /\ searches = <<>>

\* window.clearTimeout(id): a pending timer with that id is removed; an id
\* that has fired already is ignored.
ClearTimeout(ts, id) == { t \in ts : t.id # id }

\* The timers left pending by the "Clear any existing timer" step of
\* getSuggestions.
KeepExistingTimer(ts, dt) == ts

ClearExistingTimer(ts, dt) == IF dt # 0 THEN ClearTimeout(ts, dt) ELSE ts

\* The delay of the timer getSuggestions sets.
TimerDelay == DEBOUNCE_MS

\* this.performSearch(query) is called: a search is in flight.
NewSearch(c, q, waited) ==
    [call |-> c, query |-> q, state |-> "inflight", waited |-> waited,
     latestAtEnd |-> 0, closed |-> FALSE]

\* history: a non-empty call for which no search has been dispatched yet
Undispatched(k) ==
    /\ suggestCalls[k].query # ""
    /\ \A s \in DOMAIN searches : searches[s].call # k

\* history: call k still waits for its debounce window
Waiting(k) ==
    /\ Undispatched(k)
    /\ ~suggestCalls[k].superseded
    /\ ~suggestCalls[k].closed

DebounceEveryQuery(q) ==
    /\ Len(suggestCalls) < MaxSuggestCalls
    /\ LET c == Len(suggestCalls) + 1
           call == [query |-> q, age |-> 0, superseded |-> FALSE,
                    closed |-> FALSE]
       IN /\ suggestCalls' = Append(suggestCalls, call)
          /\ timers' = ClearExistingTimer(timers, debounceTimer)
                         \cup {[id |-> c, call |-> c, remaining |-> TimerDelay]}
          /\ debounceTimer' = c
          /\ UNCHANGED <<lastSearchPromise, searches>>
    /\ SuggestOnly

\* getSuggestions(context) with context.query = q
GetSuggestions(q) ==
    /\ Len(suggestCalls) < MaxSuggestCalls
    /\ LET c == Len(suggestCalls) + 1
           call == [query |-> q, age |-> 0, superseded |-> FALSE,
                    closed |-> FALSE]
       IN
       IF q = ""
       THEN \* return this.performSearch(query)
            /\ suggestCalls' = Append(suggestCalls, call)
            /\ searches' = Append(searches, NewSearch(c, q, 0))
            /\ UNCHANGED <<debounceTimer, lastSearchPromise, timers>>
       ELSE \* clear the existing timer, set a new one
            /\ suggestCalls' =
                 Append([ k \in DOMAIN suggestCalls |->
                            IF Waiting(k)
                            THEN [suggestCalls[k] EXCEPT !.superseded = TRUE]
                            ELSE suggestCalls[k] ],
                        call)
            /\ timers' = ClearExistingTimer(timers, debounceTimer)
                           \cup {[id |-> c, call |-> c, remaining |-> TimerDelay]}
            /\ debounceTimer' = c
            /\ UNCHANGED <<lastSearchPromise, searches>>
    /\ SuggestOnly

\* TickMs milliseconds pass.
Tick ==
    /\ \/ \E t \in timers : t.remaining > 0
       \/ \E k \in DOMAIN suggestCalls :
             Waiting(k) /\ suggestCalls[k].age < DEBOUNCE_MS
    /\ timers' = { [t EXCEPT !.remaining = Max2(0, t.remaining - TickMs)] :
                   t \in timers }
    /\ suggestCalls' = [ k \in DOMAIN suggestCalls |->
                           IF Waiting(k)
                           THEN [suggestCalls[k] EXCEPT
                                   !.age = Min2(DEBOUNCE_MS, @ + TickMs)]
                           ELSE suggestCalls[k] ]
    /\ UNCHANGED <<debounceTimer, lastSearchPromise, searches>>
    /\ SuggestOnly

\* The timer callback runs up to its await: the search is dispatched and
\* recorded as the latest one.
TimerFire(t) ==
    /\ t \in timers
    /\ t.remaining = 0
    /\ timers' = timers \ {t}
    /\ searches' = Append(searches,
                          NewSearch(t.call, suggestCalls[t.call].query,
                                    suggestCalls[t.call].age))
    /\ lastSearchPromise' = Len(searches) + 1
    /\ UNCHANGED <<debounceTimer, suggestCalls>>
    /\ SuggestOnly

\* Whether the result of search s settles the promise getSuggestions
\* returned: the promise of an empty query is the search's own promise, the
\* promise of a debounced query is resolved behind the staleness check.
Delivers(s) ==
    IF searches[s].query = "" THEN TRUE
    ELSE lastSearchPromise = s

\* performSearch of search s returns.
SearchComplete(s) ==
    /\ s \in DOMAIN searches
    /\ searches[s].state = "inflight"
    /\ searches' = [searches EXCEPT
                      ![s].state = IF Delivers(s) THEN "delivered"
                                   ELSE "dropped",
                      ![s].latestAtEnd = Len(searches)]
    /\ UNCHANGED <<debounceTimer, lastSearchPromise, timers, suggestCalls>>
    /\ SuggestOnly

\* close()
Close ==
    /\ timers' = ClearExistingTimer(timers, debounceTimer)
    /\ debounceTimer' = 0
    /\ lastSearchPromise' = 0
    /\ suggestCalls' = [ k \in DOMAIN suggestCalls |->
                           IF Waiting(k)
                           THEN [suggestCalls[k] EXCEPT !.closed = TRUE]
                           ELSE suggestCalls[k] ]
    \* history: the searches in flight at the close
    /\ searches' = [ k \in DOMAIN searches |->
                       IF searches[k].state = "inflight"
                       THEN [searches[k] EXCEPT !.closed = TRUE]
                       ELSE searches[k] ]
    /\ SuggestOnly

NextSuggest ==
    \/ \E q \in Queries : GetSuggestions(q)
    \/ Tick
    \/ \E t \in timers : TimerFire(t)
    \/ \E s \in 1..MaxSuggestCalls : SearchComplete(s)
    \/ Close

(***************************************************************************)
(* C2: a search result is delivered only if, at that moment, it belongs to *)
(* the most recently dispatched search.                                    *)
(***************************************************************************)
C2_OnlyLatestDelivered ==
    \A s \in DOMAIN searches :
        searches[s].state = "delivered" => searches[s].latestAtEnd = s

(***************************************************************************)
(* C3: debounce.  A search for a non-empty query is dispatched only once   *)
(* the 150 ms window has elapsed since its call, at most once per call,    *)
(* and never for a call that a newer non-empty call followed before the    *)
(* dispatch; the newest non-empty call is not lost: unless close() was     *)
(* called, its timer is pending or its search has been dispatched.         *)
(***************************************************************************)
C3_Debounce ==
    /\ \A s \in DOMAIN searches :
         searches[s].query # "" =>
            LET c == searches[s].call IN
            /\ searches[s].query = suggestCalls[c].query
            /\ searches[s].waited >= DEBOUNCE_MS
            /\ ~suggestCalls[c].superseded
            /\ \A s2 \in DOMAIN searches : searches[s2].call = c => s2 = s
    /\ \A k \in DOMAIN suggestCalls :
         Waiting(k) => \E t \in timers : t.call = k

\* A burst of three queries, the first two followed by the next one inside
\* their window, and one search dispatched, for the third.
C3_Witness ==
    /\ Len(suggestCalls) = 3
    /\ \A k \in 1..2 : /\ suggestCalls[k].superseded
                       /\ suggestCalls[k].age < DEBOUNCE_MS
    /\ Len(searches) = 1
    /\ searches[1].call = 3
    /\ searches[1].query = "sm"

(***************************************************************************)
(* C28: a getSuggestions call with the empty query dispatches its search   *)
(* within the call, after no wait; it sets no timer and leaves the pending *)
(* timers and the debounce timer id as they are.                           *)
(***************************************************************************)
C28_EmptyQueryNotDebounced ==
    [][(/\ Len(suggestCalls') = Len(suggestCalls) + 1
        /\ suggestCalls'[Len(suggestCalls')].query = "") =>
         /\ Len(searches') = Len(searches) + 1
         /\ searches'[Len(searches')] = NewSearch(Len(suggestCalls'), "", 0)
         /\ timers' = timers
         /\ debounceTimer' = debounceTimer
      ]_vars

\* an empty query right after a non-empty one: its search is in flight
\* while the timer of the first call is still pending
C28_Witness ==
    /\ Len(suggestCalls) = 2
    /\ suggestCalls[1].query = "s"
    /\ suggestCalls[2].query = ""
    /\ \E t \in timers : t.call = 1 /\ t.remaining = DEBOUNCE_MS
    /\ Len(searches) = 1
    /\ searches[1].call = 2
    /\ searches[1].waited = 0

(***************************************************************************)
(* C16: after close() no timer of a call made before the close is pending, *)
(* no search is dispatched for a call that was waiting at the close, and   *)
(* the result of a search in flight at the close is never delivered.       *)
(***************************************************************************)
C16_NothingAfterClose ==
    /\ \A t \in timers : ~suggestCalls[t.call].closed
    /\ \A s \in DOMAIN searches : ~suggestCalls[searches[s].call].closed
    /\ \A s \in DOMAIN searches :
          searches[s].closed => searches[s].state # "delivered"

(***************************************************************************)
(* C34: for calls with a non-empty query, no search is dispatched from the *)
(* timer of a call that a newer call has followed, and the promise of a    *)
(* search that a later dispatch made stale, or that was in flight at a     *)
(* close(), is never settled.                                              *)
(***************************************************************************)
C34_SupersededNeverSettles ==
    /\ [][(/\ Len(searches') = Len(searches) + 1
           /\ searches'[Len(searches')].query # "") =>
              searches'[Len(searches')].call = Len(suggestCalls)]_vars
    /\ [](\A s \in DOMAIN searches :
            (/\ searches[s].query # ""
             /\ searches[s].latestAtEnd \notin {0, s} \/ searches[s].closed) =>
                searches[s].state # "delivered")

(***************************************************************************)
(* ui/emoji-suggester.ts: onTrigger                                        *)
(***************************************************************************)
\* the characters typed in SpecTrigger: the trigger, a word character,
\* whitespace, and a character that is neither
TriggerAlphabet == {":", "a", " ", "-"}

\* the null that onTrigger returns for "no session"
NoTrigger == [start |-> -1, end |-> -1, query |-> <<>>]

InitTrigger ==
    /\ line = <<>>
    /\ cursor = 0
    /\ context = NoTrigger

\* str.substring(0, n)
Substring0(str, n) == SubSeq(str, 1, n)

\* subString.match(/:([\w]*)$/): the 1-based position of the leftmost ':'
\* from which the pattern matches up to the end of the string, 0 for no match
ColonMatch(str) ==
    LET ok == { i \in 1..Len(str) :
                  /\ str[i] = ":"
                  /\ \A j \in (i + 1)..Len(str) : str[j] \in WordChars }
    IN IF ok = {} THEN 0 ELSE CHOOSE i \in ok : \A j \in ok : i <= j

\* TRAILING_WHITESPACE_REGEX.test(str), /\s$/
TrailingWhitespace(str) ==
    Len(str) > 0 /\ str[Len(str)] \in WhitespaceChars

\* Rule 2 of onTrigger: the colon is "between" words
NeverMidWord(beforeColon) == FALSE

MidWord(beforeColon) ==
    Len(beforeColon) > 0 /\ ~TrailingWhitespace(beforeColon)

\* onTrigger of the earlier suggester (src/emoji-suggester.ts): a session
\* for every match, the query possibly empty
OnTriggerEarlier(ln, ch) ==
    LET subString == Substring0(ln, ch)
        m == ColonMatch(subString)
    IN IF m = 0 THEN NoTrigger
       ELSE [start |-> m - 1, end |-> ch,
             query |-> SubSeq(subString, m + 1, Len(subString))]

\* onTrigger(cursor, editor, file) on the line ln with cursor.ch = ch
OnTrigger(ln, ch) ==
    LET subString == Substring0(ln, ch)
        m == ColonMatch(subString)
        colonIndex == m - 1
        queryAfterColon == SubSeq(subString, m + 1, Len(subString))
        beforeColon == Substring0(subString, colonIndex)
    IN IF m = 0 THEN NoTrigger
       ELSE IF Len(queryAfterColon) = 0 THEN NoTrigger
       ELSE IF MidWord(beforeColon) THEN NoTrigger
       ELSE [start |-> colonIndex, end |-> ch, query |-> queryAfterColon]

\* A keystroke inserts ch at the cursor; the host then asks onTrigger.
TypeChar(ch) ==
    /\ Len(line) < MaxLineLen
    /\ line' = Substring0(line, cursor) \o <<ch>>
                 \o SubSeq(line, cursor + 1, Len(line))
    /\ cursor' = cursor + 1
    /\ context' = OnTrigger(line', cursor')
    /\ TriggerOnly

\* The cursor moves to column ch; the host then asks onTrigger.
MoveCursor(ch) ==
    /\ ch \in 0..Len(line)
    /\ ch # cursor
    /\ cursor' = ch
    /\ context' = OnTrigger(line, cursor')
    /\ UNCHANGED line
    /\ TriggerOnly

NextTrigger ==
    \/ \E ch \in TriggerAlphabet : TypeChar(ch)
    \/ \E ch \in 0..MaxLineLen : MoveCursor(ch)

(***************************************************************************)
(* C9: onTrigger opens a session if and only if the text before the cursor *)
(* ends with ':' followed by one or more word characters and that ':' is   *)
(* at column 0 or directly after whitespace; then start is the column of   *)
(* the ':', end is the cursor and query is the word run.                   *)
(***************************************************************************)
\* the 1-based positions of a ':' before the cursor that open a session
TriggerColons ==
    { k \in 1..cursor :
        /\ line[k] = ":"
        /\ cursor - k >= 1
        /\ \A j \in (k + 1)..cursor : line[j] \in WordChars
        /\ (k = 1 \/ line[k - 1] \in WhitespaceChars) }

C20_ColonAloneActivates ==
    ( /\ cursor >= 1
      /\ line[cursor] = ":"
      /\ (cursor = 1 \/ line[cursor - 1] \in WhitespaceChars) )
        => context # NoTrigger

(***************************************************************************)
(* main.ts and storage/migration.ts: the RecentList                        *)
(***************************************************************************)
IdNames == <<"a", "b", "c", "d", "e", "f", "g", "h">>

\* the ids of the emojis that can be selected
Ids == { IdNames[i] : i \in 1..NumIds }

\* a string of MAX_ID_LENGTH characters
LongId == "long"

\* str.length of the strings the store can hold
StrLen(str) ==
    CASE str = "" -> 0
      [] str = LongId -> MAX_ID_LENGTH
      [] OTHER -> 1

\* str.trim() of the strings the store can hold
Trim(str) == IF str = " " THEN "" ELSE str

\* undefined, as the value of a property an object does not have
Undefined == "undefined"

\* The items of a stored array: a JSON string (its value in id) or a JSON
\* object with optional id and name properties.
StrItem(v) == [t |-> "str", hasId |-> FALSE, id |-> v, name |-> Undefined]

ObjItem(hasId, id, name) ==
    [t |-> "obj", hasId |-> hasId, id |-> id, name |-> name]

StrItems(ids) == [ i \in DOMAIN ids |-> StrItem(ids[i]) ]

\* The value under storageKey: nothing, text that is no JSON, a JSON value
\* that is no array (truthy or falsy), or a JSON array.
Absent == [kind |-> "absent", items |-> <<>>]

Garbage == [kind |-> "garbage", items |-> <<>>]

TruthyScalar == [kind |-> "truthy", items |-> <<>>]

FalsyScalar == [kind |-> "falsy", items |-> <<>>]

StoredArray(items) == [kind |-> "array", items |-> items]

\* JSON.stringify(recentEmojis) as the stored value
Stringify(ids) == StoredArray(StrItems(ids))

\* the store contents a run of SpecRecents starts from
StoredSamples ==
    { Absent, Garbage, TruthyScalar, FalsyScalar,
      StoredArray(<<>>),
      Stringify(<<"a", "a", "b">>),
      Stringify(<<"a", "b", "c", "d", "e", "f">>),
      Stringify(<<"a", "", " ", LongId, "b">>),
      StoredArray(<<ObjItem(TRUE, "a", "A"), ObjItem(FALSE, Undefined, "b"),
                    ObjItem(FALSE, Undefined, Undefined), StrItem("c")>>),
      StoredArray(<<StrItem("a"), ObjItem(TRUE, "b", "B")>>),
      StoredArray(<<ObjItem(FALSE, Undefined, "a"), StrItem("b")>>),
      StoredArray(<<ObjItem(TRUE, "a", "A"), ObjItem(FALSE, Undefined, "b"),
                    ObjItem(FALSE, Undefined, Undefined)>>),
      StoredArray(<<ObjItem(FALSE, Undefined, "a"), ObjItem(TRUE, "b", "B")>>) }

RecentCounts ==
    { n \in SLIDER_MIN..MaxRecentCount : (n - SLIDER_MIN) % SLIDER_STEP = 0 }

NoOp == [op |-> "none", id |-> "", dropped |-> FALSE]

\* type InsertionFormat = 'unicode' | 'shortcode'
InsertionFormats == {"unicode", "shortcode"}

\* DEFAULT_SETTINGS.insertionFormat
DefaultInsertionFormat == "unicode"

\* The text written to the editor: nothing yet, ':<code>:', or the glyph of
\* an emoji.
NoText == [kind |-> "none", of |-> ""]

ShortcodeText(code) == [kind |-> "shortcode", of |-> code]

UnicodeText(id) == [kind |-> "unicode", of |-> id]

\* the name of the emoji that has no id
NameWithoutId == "Smile"

\* sanitizeShortcode(str) on the strings of the model: the ids are valid
\* shortcodes already, the name is lowercased
SanitizeShortcode(str) ==
    CASE str = NameWithoutId -> "smile"
      [] str = " " -> ""
      [] OTHER -> str

\* textToInsert of selectSuggestion for an emoji with the given id
TextToInsert(id) ==
    LET shortcode == IF id # "" THEN SanitizeShortcode(id)
                     ELSE SanitizeShortcode(NameWithoutId)
    IN IF shortcode # "" THEN ShortcodeText(shortcode)
       ELSE ShortcodeText("emoji")

NoMigration ==
    [ran |-> FALSE, before |-> Absent, result |-> <<>>, after |-> Absent]

InitRecentsIdle ==
    /\ recentEmojis = <<>>
    /\ recentCount = SLIDER_MIN
    /\ recentStore = Absent
    /\ pluginPhase = "constructed"
    /\ storeFailures = 0
    /\ selections = 0
    /\ lastOp = NoOp
    /\ insertionFormat = DefaultInsertionFormat
    /\ editorText = NoText
    /\ migration = NoMigration

InitRecents ==
    /\ recentEmojis = <<>>
    /\ recentCount \in RecentCounts
    /\ recentStore \in StoredSamples
    /\ pluginPhase = "constructed"
    /\ storeFailures = 0
    /\ selections = 0
    /\ lastOp = NoOp
    /\ insertionFormat = DefaultInsertionFormat
    /\ editorText = NoText
    /\ migration = NoMigration

\* arr.slice(0, n)
Slice0(arr, n) == SubSeq(arr, 1, Min2(n, Len(arr)))

\* isOldEmojiFormat(item): typeof item === 'object' && item !== null &&
\* 'id' in item
TreatsAllAsOld(item) == TRUE

IsOldEmojiFormat(item) == item.t = "obj" /\ item.hasId

\* emojiObj.id || emojiObj.name
IdOrName(item) ==
    IF item.t # "obj" THEN Undefined
    ELSE IF item.id # Undefined /\ item.id # "" THEN item.id
    ELSE item.name

\* extractEmojiIds(oldFormatData)
ExtractEmojiIds(items) ==
    LET mapped == [ i \in DOMAIN items |-> IdOrName(items[i]) ]
        IsString(v) == v # Undefined
    IN SelectSeq(mapped, IsString)

\* What migrateRecentEmojis() returns: [threw, notArray, items, migrated];
\* items holds the returned array's elements as stored items, migrated says
\* that the legacy format was found and converted.
MigrateRecentEmojis(stored) ==
    LET ret(items, mig, na) ==
            [notArray |-> na, items |-> items, migrated |-> mig]
    IN CASE stored.kind = "absent" -> ret(<<>>, FALSE, FALSE)
         [] stored.kind = "garbage" -> ret(<<>>, FALSE, FALSE)
         [] stored.kind = "falsy" -> ret(<<>>, FALSE, FALSE)
         [] stored.kind = "truthy" -> ret(<<>>, FALSE, TRUE)
         [] OTHER ->
              IF stored.items = <<>> THEN ret(<<>>, FALSE, FALSE)
              ELSE IF IsOldEmojiFormat(stored.items[1])
              THEN ret(StrItems(ExtractEmojiIds(stored.items)), TRUE, FALSE)
              ELSE ret(stored.items, FALSE, FALSE)

\* the filter of cleanupRecentEmojis
ValidRecentItem(item) ==
    /\ item.t = "str"
    /\ item.id # ""
    /\ Trim(item.id) # ""
    /\ StrLen(item.id) > 0
    /\ StrLen(item.id) < MAX_ID_LENGTH

\* cleanupRecentEmojis(recentEmojis), on the items of an array
CleanupRecentEmojis(items) ==
    LET kept == SelectSeq(items, ValidRecentItem)
    IN [ i \in DOMAIN kept |-> kept[i].id ]

\* A write to the local store: it throws (and the store keeps its value) or
\* it stores the value.
StoreWrite(value, ok) ==
    /\ ok \/ storeFailures < MaxStoreFailures
    /\ recentStore' = IF ok THEN value ELSE recentStore
    /\ storeFailures' = IF ok THEN storeFailures ELSE storeFailures + 1

\* The store migrateRecentEmojis() leaves: the converted list when the
\* legacy format was found and the write did not throw.
MigrationStore(stored, ok) ==
    LET m == MigrateRecentEmojis(stored)
    IN IF m.migrated /\ ok THEN StoredArray(m.items) ELSE stored

\* loadSettings(), the recents part: migrate, then clean up.  The migration
\* writes the converted list, the cleanup writes the cleaned list; either
\* write can throw, which is swallowed.  A value that is no array has no
\* filter method: the cleanup throws and onload() rejects.
LoadSettings(okMigrate, okCleanup) ==
    /\ pluginPhase = "constructed"
    /\ LET m == MigrateRecentEmojis(recentStore)
           mid == MigrationStore(recentStore, okMigrate)
           thrown == (IF m.migrated /\ ~okMigrate THEN 1 ELSE 0)
                     + (IF ~m.notArray /\ ~okCleanup THEN 1 ELSE 0)
       IN /\ m.migrated \/ okMigrate
          /\ ~m.notArray \/ okCleanup
          /\ storeFailures + thrown <= MaxStoreFailures
          /\ storeFailures' = storeFailures + thrown
          /\ migration' = [ran |-> TRUE, before |-> recentStore,
                           result |-> m.items, after |-> mid]
          /\ IF m.notArray
             THEN /\ pluginPhase' = "failed"
                  /\ recentStore' = mid
                  /\ UNCHANGED recentEmojis
             ELSE /\ pluginPhase' = "loaded"
                  /\ recentEmojis' = CleanupRecentEmojis(m.items)
                  /\ recentStore' = IF okCleanup
                                    THEN Stringify(recentEmojis')
                                    ELSE mid
    /\ lastOp' = [NoOp EXCEPT !.op = "load"]
    /\ UNCHANGED <<recentCount, selections, insertionFormat, editorText>>
    /\ RecentsOnly

\* The list saveRecentEmoji computes: the id first, the other entries after
\* it, cut to recentCount.
SaveRecentNoSlice(recents, id, count) ==
    <<id>> \o SelectSeq(recents, LAMBDA x : x # id)

SaveRecentList(recents, id, count) ==
    Slice0(<<id>> \o SelectSeq(recents, LAMBDA x : x # id), count)

\* saveRecentEmoji assigns the list before it writes to the store, so the
\* list does not depend on the write; the mutant assigns after the write.
AssignAfterWrite(recents, id, count, ok) ==
    IF ok THEN SaveRecentList(recents, id, count) ELSE recents

SaveRecentEmoji(recents, id, count, ok) == SaveRecentList(recents, id, count)

\* getActiveEditor(app): whether it returns an editor, given that a
\* Markdown view is active
NeverNull(viewActive) == TRUE

GetActiveEditor(viewActive) == viewActive

\* selectSuggestion(suggestion, evt) for an emoji with the given id:
\* without an active editor nothing happens; saveRecentEmoji returns at once
\* for an emoji without id; the text is then written to the editor.
SelectSuggestion(id, editorActive, ok) ==
    /\ pluginPhase = "loaded"
    /\ IF ~GetActiveEditor(editorActive)
       THEN /\ ok
            /\ lastOp' = [NoOp EXCEPT !.op = "noeditor"]
            /\ UNCHANGED <<recentEmojis, recentStore, storeFailures,
                           selections, editorText>>
       ELSE /\ editorText' = TextToInsert(id)
            /\ IF id # ""
               THEN /\ selections < MaxSelections
                    /\ selections' = selections + 1
                    /\ recentEmojis' =
                         SaveRecentEmoji(recentEmojis, id, recentCount, ok)
                    /\ StoreWrite(Stringify(recentEmojis'), ok)
                    /\ lastOp' =
                         [op |-> IF editorActive THEN "select"
                                 ELSE "noeditor",
                          id |-> id,
                          dropped |-> \E x \in Range(recentEmojis) :
                                         x # id /\ x \notin Range(recentEmojis')]
               ELSE /\ ok
                    /\ lastOp' = [NoOp EXCEPT !.op = IF editorActive
                                                     THEN "insert"
                                                     ELSE "noeditor"]
                    /\ UNCHANGED <<recentEmojis, recentStore, storeFailures,
                                   selections>>
    /\ UNCHANGED <<recentCount, pluginPhase, insertionFormat, migration>>
    /\ RecentsOnly

\* The onChange handler of the "Insertion format" dropdown.
SetInsertionFormat(format) ==
    /\ pluginPhase = "loaded"
    /\ format # insertionFormat
    /\ insertionFormat' = format
    /\ lastOp' = [NoOp EXCEPT !.op = "format"]
    /\ UNCHANGED <<recentEmojis, recentCount, recentStore, pluginPhase,
                   storeFailures, selections, editorText, migration>>
    /\ RecentsOnly

\* The onChange handler of the "Recent emoji count" slider.
SetRecentCount(n) ==
    /\ pluginPhase = "loaded"
    /\ n # recentCount
    /\ recentCount' = n
    /\ lastOp' = [NoOp EXCEPT !.op = "count"]
    /\ UNCHANGED <<recentEmojis, recentStore, pluginPhase, storeFailures,
                   selections, insertionFormat, editorText, migration>>
    /\ RecentsOnly

\* clearRecentEmojis(): the list is emptied and null is stored.
ClearRecentEmojis(ok) ==
    /\ pluginPhase = "loaded"
    /\ recentEmojis' = <<>>
    /\ StoreWrite(Absent, ok)
    /\ lastOp' = [NoOp EXCEPT !.op = "clear"]
    /\ UNCHANGED <<recentCount, pluginPhase, selections, insertionFormat,
                   editorText, migration>>
    /\ RecentsOnly

NextRecents ==
    \/ \E okMigrate, okCleanup \in BOOLEAN : LoadSettings(okMigrate, okCleanup)
    \/ \E id \in Ids \cup {""}, ed \in BOOLEAN, ok \in BOOLEAN :
          SelectSuggestion(id, ed, ok)
    \/ \E n \in RecentCounts : SetRecentCount(n)
    \/ \E ok \in BOOLEAN : ClearRecentEmojis(ok)
    \/ \E format \in InsertionFormats : SetInsertionFormat(format)

(***************************************************************************)
(* C10: a selection that reaches saveRecentEmoji (an active editor, an     *)
(* emoji with an id) leaves a RecentList of at most recentCount entries    *)
(* that starts with the selected id, holds it once, and continues with the *)
(* other entries of the previous list in their previous order.             *)
(***************************************************************************)
\* a is b with entries left out, the order kept
RECURSIVE IsSubsequence(_, _)
IsSubsequence(a, b) ==
    IF a = <<>> THEN TRUE
    ELSE IF b = <<>> THEN FALSE
    ELSE IF Head(a) = Head(b) THEN IsSubsequence(Tail(a), Tail(b))
    ELSE IsSubsequence(a, Tail(b))

Occurrences(arr, x) == Cardinality({ i \in DOMAIN arr : arr[i] = x })

C10_RecentsAfterSelection ==
    [][lastOp'.op = "select" =>
         /\ Len(recentEmojis') <= recentCount
         /\ Len(recentEmojis') >= 1
         /\ recentEmojis'[1] = lastOp'.id
         /\ Occurrences(recentEmojis', lastOp'.id) = 1
         /\ \A i \in 2..Len(recentEmojis') : recentEmojis'[i] # lastOp'.id
         /\ IsSubsequence(Tail(recentEmojis'), recentEmojis)]_vars

\* a selection filled the list to the cap and pushed the oldest entry out
C10_Witness ==
    /\ lastOp.op = "select"
    /\ lastOp.dropped
    /\ Len(recentEmojis) = recentCount
    /\ recentEmojis[1] = lastOp.id

(***************************************************************************)
(* C11: once the recents are loaded, the RecentList holds no id twice and  *)
(* is no longer than the current recentCount.                              *)
(***************************************************************************)
C11_RecentsUniqueAndCapped ==
    pluginPhase = "loaded" =>
        /\ \A i, j \in DOMAIN recentEmojis :
               i # j => recentEmojis[i] # recentEmojis[j]
        /\ Len(recentEmojis) <= recentCount

(***************************************************************************)
(* C13: a selection in the suggester writes the glyph when insertionFormat *)
(* is 'unicode' and ':<shortcode>:' when it is 'shortcode'.                *)
(***************************************************************************)
C13_InsertionFollowsFormat ==
    [][lastOp'.op \in {"select", "insert"} =>
         editorText'.kind = insertionFormat]_vars

(***************************************************************************)
(* C14: whatever the store holds, loading the recents at startup does not  *)
(* throw: the plugin reaches the loaded phase.                             *)
(***************************************************************************)
C14_LoadNeverFails == migration.ran => pluginPhase = "loaded"

\* a stored array whose elements are all strings
IsStringArray(stored) ==
    /\ stored.kind = "array"
    /\ \A i \in DOMAIN stored.items : stored.items[i].t = "str"

(***************************************************************************)
(* C15: the migration is idempotent.  Run on the store its first run left  *)
(* it returns what the first run returned, and run on an array of strings  *)
(* it returns that array and leaves the store as it is.                    *)
(***************************************************************************)
C15_MigrationIdempotent ==
    migration.ran =>
        /\ MigrateRecentEmojis(migration.after).items = migration.result
        /\ MigrateRecentEmojis(migration.after).notArray
             = MigrateRecentEmojis(migration.before).notArray
        /\ IsStringArray(migration.before) =>
             /\ migration.result = migration.before.items
             /\ migration.after = migration.before

\* a legacy array was converted and the converted list was stored
C15_Witness ==
    /\ migration.ran
    /\ migration.before.kind = "array"
    /\ Len(migration.before.items) >= 2
    /\ IsOldEmojiFormat(migration.before.items[1])
    /\ migration.after # migration.before
    /\ Len(migration.result) >= 2
    /\ MigrateRecentEmojis(migration.after).items = migration.result

(***************************************************************************)
(* C30: loading a store that holds a legacy array of emoji objects (the    *)
(* store accepting writes) makes the RecentList the ids of the objects, an *)
(* object without id giving its name and an object with neither being      *)
(* dropped, in the original order, and leaves that array of strings in the *)
(* store.                                                                  *)
(***************************************************************************)
IsLegacyArray(stored) ==
    /\ stored.kind = "array"
    /\ stored.items # <<>>
    /\ \A i \in DOMAIN stored.items : stored.items[i].t = "obj"

\* the id of a legacy object, its name when it has no id, Undefined when it
\* has neither
IdElseName(item) ==
    IF item.hasId /\ item.id # Undefined THEN item.id ELSE item.name

LegacyIds(items) ==
    LET named == SelectSeq(items, LAMBDA item : IdElseName(item) # Undefined)
    IN [ i \in DOMAIN named |-> IdElseName(named[i]) ]

C30_LegacyConverted ==
    (/\ lastOp.op = "load"
     /\ IsLegacyArray(migration.before)
     /\ storeFailures = 0)
        => /\ pluginPhase = "loaded"
           /\ recentEmojis = LegacyIds(migration.before.items)
           /\ recentStore = Stringify(LegacyIds(migration.before.items))

(***************************************************************************)
(* C18: a selection without an active editor changes nothing: no text is   *)
(* written, the RecentList and the stored recents stay as they are.        *)
(***************************************************************************)
C18_NoEditorNoOp ==
    [][lastOp'.op = "noeditor" =>
         /\ editorText' = editorText
         /\ recentEmojis' = recentEmojis
         /\ recentStore' = recentStore
         /\ pluginPhase' = pluginPhase]_vars

\* a selection without an editor after one with an editor
C18_Witness ==
    /\ lastOp.op = "noeditor"
    /\ editorText.kind = "shortcode"
    /\ recentEmojis # <<>>

(***************************************************************************)
(* rendering/emoji-renderer.ts: SHORTCODE_REGEX                            *)
(***************************************************************************)
\* The length of the match of /:([a-zA-Z0-9_+-]+):/ that starts at the
\* 1-based position i of str, 0 when the pattern does not match there.
ShortcodeMatchAt(str, i) ==
    IF i > Len(str) \/ str[i] # ":" THEN 0
    ELSE LET stops == { j \in (i + 1)..(Len(str) + 1) :
                          j = Len(str) + 1 \/ str[j] \notin ShortcodeChars }
             stop == CHOOSE j \in stops : \A k \in stops : j <= k
         IN IF stop - i - 1 >= 1 /\ stop <= Len(str) /\ str[stop] = ":"
            THEN stop - i + 1
            ELSE 0

\* The matches of the pattern with the g flag in str from position i on,
\* left to right, each starting where the previous one ended:
\* [offset (0-based), length, match, id].
RECURSIVE ShortcodeMatchesFrom(_, _)
ShortcodeMatchesFrom(str, i) ==
    IF i > Len(str) THEN <<>>
    ELSE LET n == ShortcodeMatchAt(str, i)
         IN IF n = 0 THEN ShortcodeMatchesFrom(str, i + 1)
            ELSE <<[offset |-> i - 1, length |-> n,
                    match |-> SubSeq(str, i, i + n - 1),
                    id |-> SubSeq(str, i + 1, i + n - 2)]>>
                 \o ShortcodeMatchesFrom(str, i + n)

ShortcodeMatches(str) == ShortcodeMatchesFrom(str, 1)

(***************************************************************************)
(* utils: sanitizeShortcode, and the text selectSuggestion and insertEmoji *)
(* insert in shortcode format.                                             *)
(***************************************************************************)
\* a character outside ASCII that toLowerCase leaves outside ASCII
NonAscii == "NONASCII"

\* the characters of the ids and names of SpecSanitize
SanitizeAlphabet == {"a", "A", "1", "_", "+", " ", ":", NonAscii}

ShortNames == UNION { [1..n -> SanitizeAlphabet] : n \in 0..MaxNameLen }

\* names with a stretch of disallowed characters inside
SampleNames ==
    { <<" ", "A", ":", "1">>,
      <<"a", ":", ":", "a">>,
      <<"a", " ", NonAscii, "_", ":", "A">>,
      <<" ", "_", "a", "+", "_", "_", " ">> }

\* names longer than the limit of sanitizeShortcode: a run of one letter,
\* letters and underscores in turn, underscores only, a long run of spaces
\* inside
LongNames ==
    LET long == 1..(MAX_SHORTCODE_LENGTH + 10)
    IN { [i \in long |-> "a"],
         [i \in long |-> IF i % 2 = 1 THEN "a" ELSE "_"],
         [i \in long |-> "_"],
         [i \in long |-> IF i \in {1, MAX_SHORTCODE_LENGTH + 10} THEN "A"
                         ELSE " "] }

SanitizeNames == ShortNames \cup SampleNames \cup LongNames

\* the emojis of SpecSanitize: an id (and some name), or no id and a name
SanitizeEmojis ==
    { [id |-> str, name |-> <<"A">>] : str \in SanitizeNames \ {<<>>} }
      \cup { [id |-> <<>>, name |-> str] : str \in SanitizeNames }

\* str without its leading characters of the set
StripLeading(str, set) ==
    LET others == { i \in DOMAIN str : str[i] \notin set }
    IN IF others = {} THEN <<>>
       ELSE SubSeq(str, CHOOSE i \in others : \A j \in others : i <= j,
                   Len(str))

\* str without its trailing characters of the set
StripTrailing(str, set) ==
    LET others == { i \in DOMAIN str : str[i] \notin set }
    IN IF others = {} THEN <<>>
       ELSE SubSeq(str, 1, CHOOSE i \in others : \A j \in others : i >= j)

\* str.trim()
TrimWhitespace(str) ==
    StripTrailing(StripLeading(str, WhitespaceChars), WhitespaceChars)

\* str.toLowerCase()
ToLowerCase(str) ==
    [ i \in DOMAIN str |-> IF str[i] = "A" THEN "a" ELSE str[i] ]

\* [a-z0-9_+-]
LowerShortcodeChars == ShortcodeChars \ {"A"}

KeepDisallowed(str) == str

\* str.replace(/[^a-z0-9_+-]/g, '_')
ReplaceDisallowed(str) ==
    [ i \in DOMAIN str |->
        IF str[i] \in LowerShortcodeChars THEN str[i] ELSE "_" ]

\* str.replace(/_{2,}/g, '_'): of a run of underscores the first is kept
CollapseUnderscores(str) ==
    LET kept == { i \in DOMAIN str :
                    ~(str[i] = "_" /\ i > 1 /\ str[i - 1] = "_") }
    IN [ k \in 1..Cardinality(kept) |->
           str[CHOOSE i \in kept :
                   Cardinality({ j \in kept : j <= i }) = k] ]

\* str.replace(/^_+|_+$/g, '')
TrimUnderscores(str) == StripTrailing(StripLeading(str, {"_"}), {"_"})

\* sanitizeShortcode(str) on a string of characters
SanitizeShortcodeOf(str) ==
    Slice0(TrimUnderscores(CollapseUnderscores(ReplaceDisallowed(
               ToLowerCase(TrimWhitespace(str))))),
           MAX_SHORTCODE_LENGTH)

\* textToInsert of selectSuggestion, and of insertEmoji in shortcode format
ShortcodeToInsert(emoji) ==
    LET shortcode == IF emoji.id # <<>> THEN SanitizeShortcodeOf(emoji.id)
                     ELSE SanitizeShortcodeOf(emoji.name)
    IN IF shortcode # <<>> THEN <<":">> \o shortcode \o <<":">>
       ELSE <<":", "e", "m", "o", "j", "i", ":">>

InitSanitize ==
    /\ snPc = "input"
    /\ snEmoji = [id |-> <<>>, name |-> <<>>]
    /\ snText = <<>>

InitSanitizeInputs ==
    /\ snPc = "input"
    /\ snEmoji \in SanitizeEmojis
    /\ snText = <<>>

\* sanitizeShortcode is called with the id, or with the name of an emoji
\* without id
CallSanitizeShortcode ==
    /\ snPc = "input"
    /\ snPc' = "sanitizeShortcode"
    /\ snText' = SanitizeShortcodeOf(IF snEmoji.id # <<>> THEN snEmoji.id
                                     ELSE snEmoji.name)
    /\ UNCHANGED snEmoji
    /\ SanitizeOnly

\* selectSuggestion inserts the emoji
CallSelectSuggestion ==
    /\ snPc = "input"
    /\ snPc' = "selectSuggestion"
    /\ snText' = ShortcodeToInsert(snEmoji)
    /\ UNCHANGED snEmoji
    /\ SanitizeOnly

\* insertEmoji(editor, emoji, 'shortcode', skinTone, context)
CallInsertEmoji ==
    /\ snPc = "input"
    /\ snPc' = "insertEmoji"
    /\ snText' = ShortcodeToInsert(snEmoji)
    /\ UNCHANGED snEmoji
    /\ SanitizeOnly

NextSanitize ==
    \/ CallSanitizeShortcode
    \/ CallSelectSuggestion
    \/ CallInsertEmoji

(***************************************************************************)
(* C38: sanitizeShortcode returns at most 50 characters, all of            *)
(* [a-z0-9_+-]; the text inserted in shortcode format is ':emoji:' when    *)
(* that result is empty and ':' + result + ':' otherwise, and the          *)
(* renderer's shortcode pattern matches the inserted text once, whole.     *)
(***************************************************************************)
C38_InsertedShortcodeIsOneToken ==
    LET used == IF snEmoji.id # <<>> THEN snEmoji.id ELSE snEmoji.name
        sanitized == SanitizeShortcodeOf(used)
    IN /\ snPc = "sanitizeShortcode" =>
            /\ Len(snText) <= MAX_SHORTCODE_LENGTH
            /\ \A i \in DOMAIN snText : snText[i] \in LowerShortcodeChars
       /\ snPc \in {"selectSuggestion", "insertEmoji"} =>
            /\ Len(snText) >= 3
            /\ snText[1] = ":" /\ snText[Len(snText)] = ":"
            /\ \A i \in 2..(Len(snText) - 1) : snText[i] \in ShortcodeChars
            /\ sanitized = <<>> =>
                  snText = <<":", "e", "m", "o", "j", "i", ":">>
            /\ sanitized # <<>> => SubSeq(snText, 2, Len(snText) - 1) = sanitized
            /\ Len(ShortcodeMatches(snText)) = 1
            /\ ShortcodeMatches(snText)[1].match = snText

\* the name ' A:1' of an emoji without id is inserted as ':a_1:'
C38_Witness ==
    /\ snPc = "selectSuggestion"
    /\ snEmoji = [id |-> <<>>, name |-> <<" ", "A", ":", "1">>]
    /\ snText = <<":", "a", "_", "1", ":">>

(***************************************************************************)
(* rendering/markdown-processor.ts: processTextNode                        *)
(***************************************************************************)
\* the characters of the text nodes of SpecStatic
StaticAlphabet == {":", "a", " "}

StaticTexts ==
    UNION { [1..n -> StaticAlphabet] : n \in 0..MaxTextLen }

\* the content of a node of the fragment
TextItem(str) == [kind |-> "text", text |-> str, src |-> str]

\* the span.qe-emoji that resolveEmojiElement creates; src is history: the
\* match it stands for
SpanItem(glyph, match) == [kind |-> "span", text |-> glyph, src |-> match]

\* the emoji character of a resolved id
Glyph == <<"*">>

InitStatic ==
    /\ statPc = "idle"
    /\ original = <<>>
    /\ statPending = {}
    /\ replacements = <<>>
    /\ fragment = <<>>

\* processTextNode(textNode) up to "await Promise.all(promises)": without a
\* match the node is left as it is; otherwise one resolution is started for
\* every match.
ProcessTextNode(text) ==
    /\ statPc = "idle"
    /\ original' = text
    /\ replacements' = <<>>
    /\ LET ms == ShortcodeMatches(text)
       IN IF ms = <<>>
          THEN /\ statPc' = "done"
               /\ statPending' = {}
               /\ fragment' = <<TextItem(text)>>
          ELSE /\ statPc' = "resolving"
               /\ statPending' = Range(ms)
               /\ fragment' = <<>>
    /\ StaticOnly

\* element || match
ElementOrMatch(m, resolved) ==
    IF resolved THEN SpanItem(Glyph, m.match) ELSE TextItem(m.match)

\* The resolution of match m completes, with an element or with null, and
\* its .then callback pushes the replacement.
ResolveEmojiElement(m, resolved) ==
    /\ statPc = "resolving"
    /\ m \in statPending
    /\ statPending' = statPending \ {m}
    /\ replacements' = Append(replacements,
                              [offset |-> m.offset, length |-> m.length,
                               element |-> ElementOrMatch(m, resolved)])
    /\ UNCHANGED <<statPc, original, fragment>>
    /\ StaticOnly

\* replacements.sort((a, b) => a.offset - b.offset)
Unsorted(reps) == reps

SortByOffset(reps) ==
    [ i \in DOMAIN reps |->
        CHOOSE r \in Range(reps) :
            Cardinality({ q \in Range(reps) : q.offset < r.offset }) = i - 1 ]

\* lastIndex after a replacement
NextLastIndex(r) == r.offset + r.length

\* The loop over the sorted replacements from index k on, and the remaining
\* text after it.
RECURSIVE BuildFragment(_, _, _, _)
BuildFragment(text, reps, k, lastIndex) ==
    IF k > Len(reps)
    THEN IF lastIndex < Len(text)
         THEN <<TextItem(SubSeq(text, lastIndex + 1, Len(text)))>>
         ELSE <<>>
    ELSE LET r == reps[k]
             before == IF r.offset > lastIndex
                       THEN <<TextItem(SubSeq(text, lastIndex + 1, r.offset))>>
                       ELSE <<>>
         IN before \o <<r.element>>
              \o BuildFragment(text, reps, k + 1, NextLastIndex(r))

ReplaceWithoutWaiting ==
    /\ statPc = "resolving"
    /\ fragment' = BuildFragment(original, SortByOffset(replacements), 1, 0)
    /\ statPc' = "done"
    /\ UNCHANGED <<original, statPending, replacements>>
    /\ StaticOnly

\* processTextNode after Promise.all: sort, build the fragment, replace the
\* text node with it.
ReplaceTextNode ==
    /\ statPc = "resolving"
    /\ statPending = {}
    /\ fragment' = BuildFragment(original, SortByOffset(replacements), 1, 0)
    /\ statPc' = "done"
    /\ UNCHANGED <<original, statPending, replacements>>
    /\ StaticOnly

\* the next text node
NextTextNode ==
    /\ statPc = "done"
    /\ statPc' = "idle"
    /\ original' = <<>>
    /\ replacements' = <<>>
    /\ fragment' = <<>>
    /\ UNCHANGED statPending
    /\ StaticOnly

NextStatic ==
    \/ \E text \in StaticTexts : ProcessTextNode(text)
    \/ \E m \in statPending, resolved \in BOOLEAN :
          ResolveEmojiElement(m, resolved)
    \/ ReplaceTextNode
    \/ NextTextNode

(***************************************************************************)
(* C8: the static pass preserves the text.  Putting back, for every glyph  *)
(* element of the output, the token it replaced gives the original text;   *)
(* the glyph elements are exactly the resolved tokens, in their order, so  *)
(* a token that failed to resolve is present as its text; and when no      *)
(* token resolved the output text is the input.                            *)
(***************************************************************************)
RECURSIVE ConcatSrc(_)
ConcatSrc(items) ==
    IF items = <<>> THEN <<>> ELSE Head(items).src \o ConcatSrc(Tail(items))

RECURSIVE ConcatText(_)
ConcatText(items) ==
    IF items = <<>> THEN <<>> ELSE Head(items).text \o ConcatText(Tail(items))

IsSpan(item) == item.kind = "span"

\* history: the matches of the original text that resolved, by offset
ResolvedMatches ==
    SelectSeq(ShortcodeMatches(original),
              LAMBDA m : \E r \in Range(replacements) :
                            r.offset = m.offset /\ IsSpan(r.element))

C8_StaticPassPreservesText ==
    statPc = "done" =>
        /\ ConcatSrc(fragment) = original
        /\ LET spans == SelectSeq(fragment, IsSpan)
           IN /\ Len(spans) = Len(ResolvedMatches)
              /\ \A i \in DOMAIN spans : spans[i].src = ResolvedMatches[i].match
        /\ (ResolvedMatches = <<>>) => ConcatText(fragment) = original

\* ':a: :a:' with the second token resolved before the first, the first
\* resolution failing: the output is ':a:', ' ', and one glyph element
C8_Witness ==
    /\ statPc = "done"
    /\ original = <<":", "a", ":", ":", "a", ":">>
    /\ Len(replacements) = 2
    /\ replacements[1].offset > replacements[2].offset
    /\ ~IsSpan(replacements[2].element)
    /\ IsSpan(replacements[1].element)
    /\ fragment = <<TextItem(<<":", "a", ":">>),
                    SpanItem(Glyph, <<":", "a", ":">>)>>

(***************************************************************************)
(* C24: for a text node with tokens, nothing is replaced while a           *)
(* resolution is outstanding; the one replacement is made when every token *)
(* has its replacement, and the output is the text between the tokens and, *)
(* in ascending offset, one element per token (a glyph element if it       *)
(* resolved): a function of the text and of which tokens resolved, the     *)
(* same for every order of completion.                                     *)
(***************************************************************************)
\* the replacements in the order of the tokens in the text
ReplacementOf(m) ==
    CHOOSE r \in Range(replacements) : r.offset = m.offset

InTokenOrder ==
    LET ms == ShortcodeMatches(original)
    IN [ i \in DOMAIN ms |-> ReplacementOf(ms[i]) ]

C24_OneReplacementInOffsetOrder ==
    /\ statPc = "resolving" => fragment = <<>>
    /\ (statPc = "done" /\ ShortcodeMatches(original) # <<>>) =>
          /\ statPending = {}
          /\ Len(replacements) = Len(ShortcodeMatches(original))
          /\ \A m \in Range(ShortcodeMatches(original)) :
                Cardinality({ k \in DOMAIN replacements :
                                replacements[k].offset = m.offset }) = 1
          /\ fragment = BuildFragment(original, InTokenOrder, 1, 0)
          /\ Len(SelectSeq(fragment, IsSpan))
               = Cardinality({ k \in DOMAIN replacements :
                                 IsSpan(replacements[k].element) })

\* ':a::a:' with the second token resolved before the first: two glyph
\* elements
C24_Witness ==
    /\ statPc = "done"
    /\ original = <<":", "a", ":", ":", "a", ":">>
    /\ Len(replacements) = 2
    /\ replacements[1].offset = 3
    /\ replacements[2].offset = 0
    /\ fragment = <<SpanItem(Glyph, <<":", "a", ":">>),
                    SpanItem(Glyph, <<":", "a", ":">>)>>

(***************************************************************************)
(* rendering/emoji-renderer.ts: shouldSkipLine                             *)
(***************************************************************************)
\* str.includes(pat)
Includes(str, pat) ==
    \E i \in 1..(Len(str) - Len(pat) + 1) :
        SubSeq(str, i, i + Len(pat) - 1) = pat

\* str.match(/^(\t| {4})/)
IndentedCode(str) ==
    \/ Len(str) >= 1 /\ str[1] = "\t"
    \/ Len(str) >= 4 /\ SubSeq(str, 1, 4) = <<" ", " ", " ", " ">>

NoInlinePattern(str, d) == FALSE

\* str.match(/d[^d]*:[^d]*d/) for a delimiter character d
ColonBetween(str, d) ==
    \E i, j \in 1..Len(str) :
        /\ i < j
        /\ str[i] = d
        /\ str[j] = d
        /\ \A k \in (i + 1)..(j - 1) : str[k] # d
        /\ \E k \in (i + 1)..(j - 1) : str[k] = ":"

\* the backtick character
Backtick == "BACKTICK"

Dollar == "$"

Fence == <<Backtick, Backtick, Backtick>>

MathFence == <<Dollar, Dollar>>

\* shouldSkipLine(lineText)
ShouldSkipLine(lineText) ==
    \/ IndentedCode(lineText)
    \/ Includes(lineText, Fence)
    \/ Includes(lineText, MathFence)
    \/ Includes(lineText, <<"\\", "[">>)
    \/ Includes(lineText, <<"\\", "]">>)
    \/ ColonBetween(lineText, Backtick)
    \/ ColonBetween(lineText, Dollar)

\* the characters of the lines of SpecSkip
SkipAlphabet == {Backtick, Dollar, ":", "a", " ", "\t", "\\", "["}

SkipLines == UNION { [1..n -> SkipAlphabet] : n \in 0..MaxSkipLineLen }

\* no node: the call is one of shouldSkipLine
NoNode == [hasParent |-> FALSE, inCode |-> FALSE, before |-> <<>>,
           text |-> <<>>, after |-> <<>>]

\* the characters of the text nodes of SpecSkip
NodeAlphabet == {Backtick, Dollar, ":"}

NodeTexts(n) == UNION { [1..k -> NodeAlphabet] : k \in 0..n }

\* a text node (with text) and what surrounds it
SkipNodes ==
    [hasParent : BOOLEAN, inCode : BOOLEAN,
     before : NodeTexts(MaxContextLen),
     text : NodeTexts(MaxNodeTextLen) \ {<<>>},
     after : NodeTexts(MaxContextLen)]

\* str.indexOf(pat), 0-based, for a pat that occurs in str
IndexOf(str, pat) ==
    LET at == { i \in 1..(Len(str) - Len(pat) + 1) :
                  SubSeq(str, i, i + Len(pat) - 1) = pat }
    IN (CHOOSE i \in at : \A j \in at : i <= j) - 1

\* (str.match(/d/g) || []).length
CountOf(str, d) == Cardinality({ i \in DOMAIN str : str[i] = d })

\* openCount % 2 === 1 && closeCount > 0
OddBeforeSomeAfter(beforeText, afterText, d) ==
    CountOf(beforeText, d) % 2 = 1 /\ CountOf(afterText, d) > 0

\* shouldSkipNode(node)
ShouldSkipNode(node) ==
    IF ~node.hasParent THEN TRUE
    ELSE IF node.inCode THEN TRUE
    ELSE LET nodeText == node.text
             fullParentText == node.before \o node.text \o node.after
             nodeIndex == IndexOf(fullParentText, nodeText)
             beforeText == SubSeq(fullParentText, 1, nodeIndex)
             afterText == SubSeq(fullParentText, nodeIndex + Len(nodeText) + 1,
                                 Len(fullParentText))
         IN \/ OddBeforeSomeAfter(beforeText, afterText, Backtick)
            \/ OddBeforeSomeAfter(beforeText, afterText, Dollar)

\* acceptNode(node) of the tree walker of createProcessor: the node is
\* handed to processTextNode
AcceptNode(node) ==
    IF ShouldSkipNode(node) THEN FALSE
    ELSE Includes(node.text, <<":">>)

InitSkip ==
    /\ ckPc = "input"
    /\ ckLine = <<>>
    /\ ckNode = NoNode
    /\ ckResult = FALSE

InitSkipInputs ==
    /\ ckPc = "input"
    /\ \/ ckLine \in SkipLines /\ ckNode = NoNode
       \/ ckLine = <<>> /\ ckNode \in SkipNodes
    /\ ckResult = FALSE

CallShouldSkipLine ==
    /\ ckPc = "input"
    /\ ckNode = NoNode
    /\ ckPc' = "shouldSkipLine"
    /\ ckResult' = ShouldSkipLine(ckLine)
    /\ UNCHANGED <<ckLine, ckNode>>
    /\ SkipOnly

CallShouldSkipNode ==
    /\ ckPc = "input"
    /\ ckNode # NoNode
    /\ ckPc' = "shouldSkipNode"
    /\ ckResult' = ShouldSkipNode(ckNode)
    /\ UNCHANGED <<ckLine, ckNode>>
    /\ SkipOnly

\* The tree walker of the static pass visits the node.
CallAcceptNode ==
    /\ ckPc = "input"
    /\ ckNode # NoNode
    /\ ckPc' = "acceptNode"
    /\ ckResult' = AcceptNode(ckNode)
    /\ UNCHANGED <<ckLine, ckNode>>
    /\ SkipOnly

NextSkip ==
    \/ CallShouldSkipLine
    \/ CallShouldSkipNode
    \/ CallAcceptNode

(***************************************************************************)
(* C27: shouldSkipNode returns true for a node without a parent, for a     *)
(* node with a code or math ancestor, and for a node whose parent's text   *)
(* has an odd number of backticks (or of '$') before the node and at least *)
(* one after it, and false otherwise; the static pass does not take a      *)
(* node that is skipped.                                                   *)
(***************************************************************************)
C27_SkipNodeByContext ==
    /\ ckPc = "shouldSkipNode" =>
          ckResult = \/ ~ckNode.hasParent
                     \/ ckNode.inCode
                     \/ OddBeforeSomeAfter(ckNode.before, ckNode.after, Backtick)
                     \/ OddBeforeSomeAfter(ckNode.before, ckNode.after, Dollar)
    /\ (ckPc = "acceptNode" /\ ShouldSkipNode(ckNode)) => ~ckResult

(***************************************************************************)
(* C26, as stated: shouldSkipLine returns true for a line that starts with *)
(* a tab or four spaces, contains a fenced-code delimiter, contains a      *)
(* block-math delimiter, or has a shortcode between two backticks or two   *)
(* '$', and false for a line with none of these.                           *)
(***************************************************************************)
\* a shortcode token of the line lies between two characters d
TokenBetween(ln, d) ==
    \E m \in Range(ShortcodeMatches(ln)) :
        /\ \E i \in 1..m.offset : ln[i] = d
        /\ \E j \in (m.offset + m.length + 1)..Len(ln) : ln[j] = d

BlockDelimiter(ln) ==
    \/ Includes(ln, Fence)
    \/ Includes(ln, MathFence)
    \/ Includes(ln, <<"\\", "[">>)
    \/ Includes(ln, <<"\\", "]">>)

C26_SkipIffListed ==
    ckPc = "shouldSkipLine" =>
        ckResult = \/ IndentedCode(ckLine)
                   \/ BlockDelimiter(ckLine)
                   \/ TokenBetween(ckLine, Backtick)
                   \/ TokenBetween(ckLine, Dollar)

(***************************************************************************)
(* C26, amended: shouldSkipLine returns true exactly for a line that       *)
(* starts with a tab or four spaces, contains a fenced-code or block-math  *)
(* delimiter, or has a ':' with a backtick before and after it or a '$'    *)
(* before and after it; so it returns true for every line with a shortcode *)
(* between two backticks or two '$'.                                       *)
(***************************************************************************)
ColonInside(ln, d) ==
    \E k \in 1..Len(ln) :
        /\ ln[k] = ":"
        /\ \E i \in 1..(k - 1) : ln[i] = d
        /\ \E j \in (k + 1)..Len(ln) : ln[j] = d

C26_SkipIffColonInside ==
    ckPc = "shouldSkipLine" =>
        /\ ckResult = \/ IndentedCode(ckLine)
                      \/ BlockDelimiter(ckLine)
                      \/ ColonInside(ckLine, Backtick)
                      \/ ColonInside(ckLine, Dollar)
        /\ (TokenBetween(ckLine, Backtick) \/ TokenBetween(ckLine, Dollar))
              => ckResult

\* a shortcode in inline code
C26_Witness ==
    /\ ckPc = "shouldSkipLine"
    /\ ckLine = <<Backtick, ":", "a", ":", Backtick>>
    /\ ckResult

(***************************************************************************)
(* rendering/codemirror-extension.ts: EmojiDecorator                       *)
(* The workspace's active Markdown view is the view of this editor.        *)
(***************************************************************************)
\* the lines documents are made of
SampleLines ==
    { <<":", "a", ":">>,
      Fence,
      <<Backtick, ":", "a", ":", Backtick>>,
      <<" ", " ", " ", " ", ":", "a", ":">>,
      <<Dollar, ":", "a", ":", Dollar>>,
      MathFence }

\* the ids the emoji map holds
KnownIds == { <<"a">> }

\* The text of the document, lines joined by line breaks.
RECURSIVE JoinLines(_)
JoinLines(lines) ==
    IF lines = <<>> THEN <<>>
    ELSE IF Len(lines) = 1 THEN lines[1]
    ELSE lines[1] \o <<"\n">> \o JoinLines(Tail(lines))

\* The 0-based offset at which line l of the document starts.
RECURSIVE LineStart(_, _)
LineStart(lines, l) ==
    IF l = 1 THEN 0 ELSE LineStart(lines, l - 1) + Len(lines[l - 1]) + 1

\* view.state.doc.lineAt(pos).number
LineAt(lines, pos) ==
    CHOOSE l \in DOMAIN lines :
        LineStart(lines, l) <= pos /\ pos <= LineStart(lines, l) + Len(lines[l])

\* isStrictSourceMode(pluginInstance)
IsStrictSourceMode == viewMode = "source" /\ ~livePreview

\* whether processRange skips the match on the line lineText
SkipsMatch(lineText) == ShouldSkipLine(lineText)

ResolvesWithoutMap(id, map) == id \in KnownIds

\* renderEmojiDecoration: the id is looked up in this.emojiMap
Resolves(id, map) == map = "loaded" /\ id \in KnownIds

\* processRange over the whole document: the decorations added
ProcessRange(lines, map) ==
    LET ms == ShortcodeMatches(JoinLines(lines))
    IN { [line |-> LineAt(lines, ms[i].offset),
          from |-> ms[i].offset,
          to |-> ms[i].offset + ms[i].length,
          shortcode |-> ms[i].match] :
         i \in { k \in DOMAIN ms :
                   /\ ~SkipsMatch(lines[LineAt(lines, ms[k].offset)])
                   /\ Resolves(ms[k].id, map) } }

\* buildDecorations(view): the decoration set it returns
BuildDecorations(lines, map) ==
    IF IsStrictSourceMode THEN {} ELSE ProcessRange(lines, map)

\* buildDecorations(view) calls initializeEmojiMap() when the map is empty
StartsMapLoad == ~IsStrictSourceMode /\ emojiMap = "empty"

\* The state after the constructor ran in Live Preview on an empty document:
\* no decorations, the map requested.
InitLive ==
    /\ doc = <<>>
    /\ viewMode = "source"
    /\ livePreview = TRUE
    /\ lastMode = "null"
    /\ emojiMap = "empty"
    /\ mapLoads = 1
    /\ decorations = {}
    /\ settled = TRUE

\* update(update) for a view update on the (new) document lines
Update(lines, changed) ==
    /\ IF changed
       THEN \* docChanged or viewportChanged: rebuild and return
            /\ decorations' = BuildDecorations(lines, emojiMap)
            /\ mapLoads' = IF StartsMapLoad THEN mapLoads + 1 ELSE mapLoads
            /\ UNCHANGED lastMode
       ELSE IF lastMode # viewMode
       THEN /\ lastMode' = viewMode
            /\ decorations' = BuildDecorations(lines, emojiMap)
            /\ mapLoads' = IF StartsMapLoad THEN mapLoads + 1 ELSE mapLoads
       ELSE UNCHANGED <<lastMode, decorations, mapLoads>>
    /\ mapLoads' <= MaxMapLoads
    /\ settled' = TRUE
    /\ UNCHANGED <<viewMode, livePreview, emojiMap>>

\* A line is typed at the end of the document: update with docChanged.
DocChanged(ln) ==
    /\ Len(doc) < MaxDocLines
    /\ doc' = Append(doc, ln)
    /\ Update(doc', TRUE)
    /\ LiveOnly

\* The document is emptied: update with docChanged.
DocCleared ==
    /\ doc # <<>>
    /\ doc' = <<>>
    /\ Update(doc', TRUE)
    /\ LiveOnly

\* The editor is scrolled or resized: update with viewportChanged.
ViewportChanged ==
    /\ UNCHANGED doc
    /\ Update(doc, TRUE)
    /\ LiveOnly

\* Any other view update (selection, focus, reconfiguration).
OtherUpdate ==
    /\ UNCHANGED doc
    /\ Update(doc, FALSE)
    /\ LiveOnly

\* The user switches between the editing view and the reading view.
SwitchMode ==
    /\ viewMode' = IF viewMode = "source" THEN "preview" ELSE "source"
    /\ settled' = FALSE
    /\ UNCHANGED <<doc, livePreview, lastMode, emojiMap, mapLoads, decorations>>
    /\ LiveOnly

\* The user switches between Live Preview and source mode.
ToggleLivePreview ==
    /\ livePreview' = ~livePreview
    /\ settled' = FALSE
    /\ UNCHANGED <<doc, viewMode, lastMode, emojiMap, mapLoads, decorations>>
    /\ LiveOnly

\* An initializeEmojiMap() call completes: getEmojiMap() resolved and the
\* map is assigned, or it rejected and the error is swallowed.
MapLoadComplete(ok) ==
    /\ mapLoads > 0
    /\ mapLoads' = mapLoads - 1
    /\ emojiMap' = IF ok THEN "loaded" ELSE emojiMap
    /\ UNCHANGED <<doc, viewMode, livePreview, lastMode, decorations, settled>>
    /\ LiveOnly

NextLive ==
    \/ \E ln \in SampleLines : DocChanged(ln)
    \/ DocCleared
    \/ ViewportChanged
    \/ OtherUpdate
    \/ SwitchMode
    \/ ToggleLivePreview
    \/ \E ok \in BOOLEAN : MapLoadComplete(ok)

(***************************************************************************)
(* rendering/emoji-renderer.ts: getEmojiMap, the map shared by the static  *)
(* pass (resolveEmojiCharacter) and the live pass (initializeEmojiMap).    *)
(***************************************************************************)
MapCallers == {"static", "live"}

InitMap ==
    /\ emojiMapCache = "null"
    /\ mapCalls = <<>>
    /\ mapClears = 0

\* getEmojiMap() up to its await: the cached map is returned, or the dataset
\* is imported.
GetEmojiMap(caller) ==
    /\ Len(mapCalls) < MaxMapCalls
    /\ mapCalls' = Append(mapCalls,
                          [caller |-> caller,
                           imported |-> emojiMapCache = "null",
                           state |-> IF emojiMapCache # "null"
                                     THEN "returned" ELSE "importing",
                           lifetime |-> mapClears])
    /\ UNCHANGED <<emojiMapCache, mapClears>>
    /\ MapOnly

\* The import of call c settles: the map is built and cached, or the call
\* throws.
ImportComplete(c, ok) ==
    /\ c \in DOMAIN mapCalls
    /\ mapCalls[c].state = "importing"
    /\ emojiMapCache' = IF ok THEN "map" ELSE emojiMapCache
    /\ mapCalls' = [mapCalls EXCEPT
                      ![c].state = IF ok THEN "returned" ELSE "thrown"]
    /\ UNCHANGED mapClears
    /\ MapOnly

\* clearEmojiMapCache()
ClearEmojiMapCache ==
    /\ mapClears < MaxMapClears
    /\ emojiMapCache' = "null"
    /\ mapClears' = mapClears + 1
    /\ UNCHANGED mapCalls
    /\ MapOnly

NextMap ==
    \/ \E caller \in MapCallers : GetEmojiMap(caller)
    \/ \E c \in 1..MaxMapCalls, ok \in BOOLEAN : ImportComplete(c, ok)
    \/ ClearEmojiMapCache

(***************************************************************************)
(* C36: within one cache lifetime a call of getEmojiMap() imports the      *)
(* dataset only if every earlier import of that lifetime has failed: no    *)
(* call starts a second import, and builds the map again, while an import  *)
(* is in flight or after one has succeeded.                                *)
(***************************************************************************)
C36_MapBuiltOnce ==
    \A i, j \in DOMAIN mapCalls :
        (/\ i < j
         /\ mapCalls[i].lifetime = mapCalls[j].lifetime
         /\ mapCalls[i].imported
         /\ mapCalls[j].imported) => mapCalls[i].state = "thrown"

(***************************************************************************)
(* Code and math regions of a Markdown document.                           *)
(***************************************************************************)
\* the line opens or closes a fenced block with delimiter fence
IsDelimiterLine(ln, fence) ==
    \E i \in 1..Len(ln) :
        /\ \A k \in 1..(i - 1) : ln[k] = " "
        /\ i <= 4
        /\ i + Len(fence) - 1 <= Len(ln)
        /\ SubSeq(ln, i, i + Len(fence) - 1) = fence

\* line l is a delimiter line of a block or lies inside a block
InBlock(lines, l, fence) ==
    LET before == Cardinality({ k \in 1..(l - 1) :
                                  IsDelimiterLine(lines[k], fence) })
    IN IsDelimiterLine(lines[l], fence) \/ before % 2 = 1

\* the span from..to of the line lies between an opening and a closing
\* delimiter character d of that line
InInlineSpan(ln, from, to, d) ==
    /\ Cardinality({ k \in 1..from : ln[k] = d }) % 2 = 1
    /\ \E k \in (to + 1)..Len(ln) : ln[k] = d

\* the decoration d covers text of a code or math region
InProtectedRegion(lines, d) ==
    LET ln == lines[d.line]
        from == d.from - LineStart(lines, d.line)
        to == d.to - LineStart(lines, d.line)
    IN \/ InBlock(lines, d.line, Fence)
       \/ InBlock(lines, d.line, MathFence)
       \/ IndentedCode(ln)
       \/ InInlineSpan(ln, from, to, Backtick)
       \/ InInlineSpan(ln, from, to, Dollar)

(***************************************************************************)
(* C6: the live pass produces no decoration for a shortcode inside a code  *)
(* or math region: inline code, an indented code line, a line of a fenced  *)
(* code block, inline math, block math.                                    *)
(***************************************************************************)
C6_NoDecorationInCodeOrMath ==
    \A d \in decorations : ~InProtectedRegion(doc, d)

(***************************************************************************)
(* C7: once update() has run after the last mode or sub-mode switch, an    *)
(* editor in strict source mode (edit mode, not Live Preview) has an empty *)
(* decoration set.                                                         *)
(***************************************************************************)
C7_NoDecorationsInStrictSource ==
    (settled /\ viewMode = "source" /\ ~livePreview) => decorations = {}

(***************************************************************************)
(* C25: outside strict source mode, a build that runs while the map is     *)
(* empty produces no decoration and starts a load of the map, and a build  *)
(* that runs once the map is populated produces exactly one decoration per *)
(* token of a line that is not skipped whose id is in the map.             *)
(***************************************************************************)
\* the step is an update that rebuilds the decorations
IsBuild ==
    \/ \E ln \in SampleLines : DocChanged(ln)
    \/ DocCleared
    \/ ViewportChanged
    \/ OtherUpdate /\ lastMode # viewMode

\* one decoration for every token with a known id on a line that
\* shouldSkipLine does not skip
TokenDecorations(lines) ==
    UNION { { [line |-> l,
               from |-> LineStart(lines, l) + m.offset,
               to |-> LineStart(lines, l) + m.offset + m.length,
               shortcode |-> m.match] :
              m \in { x \in Range(ShortcodeMatches(lines[l])) :
                        x.id \in KnownIds } } :
            l \in { k \in DOMAIN lines : ~ShouldSkipLine(lines[k]) } }

C25_DecorationsOnceMapPopulated ==
    [][(IsBuild /\ ~IsStrictSourceMode) =>
         /\ emojiMap = "empty" =>
               /\ decorations' = {}
               /\ mapLoads' = mapLoads + 1
         /\ emojiMap = "loaded" =>
               /\ decorations' = TokenDecorations(doc')
               /\ mapLoads' = mapLoads
      ]_vars

\* a token and a token in inline code, built with the map populated
C25_Witness ==
    /\ emojiMap = "loaded"
    /\ ~IsStrictSourceMode
    /\ doc = << <<Backtick, ":", "a", ":", Backtick>>, <<":", "a", ":">> >>
    /\ decorations = {[line |-> 2, from |-> 6, to |-> 9,
                       shortcode |-> <<":", "a", ":">>]}

(***************************************************************************)
(* ui/emoji-suggester.ts: performSearch.  SearchIndex.search is the        *)
(* library's; it is modelled by a table over a dataset of two emojis.      *)
(***************************************************************************)
EmojiA == [id |-> "a", name |-> "A"]

EmojiB == [id |-> "b", name |-> "B"]

\* the emojis of the dataset, in name order
Dataset == <<EmojiA, EmojiB>>

DatasetIds == { Dataset[i].id : i \in DOMAIN Dataset }

\* the categories searched for an empty query
EMOJI_CATEGORIES == <<"face", "people">>

\* searchIndex.search(q)
Search(q) ==
    CASE q = "a" -> <<EmojiB, EmojiA>>
      [] q = "b" -> <<EmojiB>>
      [] q = "s" -> <<EmojiA, EmojiB>>
      [] q = "sm" -> <<EmojiB>>
      [] q = "face" -> <<EmojiB>>
      [] q = "people" -> <<EmojiB, EmojiA>>
      [] OTHER -> <<>>

\* arr.sort((a, b) => a.name.localeCompare(b.name))
RECURSIVE SortByNameFrom(_, _)
SortByNameFrom(arr, i) ==
    IF i > Len(Dataset) THEN <<>>
    ELSE SelectSeq(arr, LAMBDA e : e.name = Dataset[i].name)
         \o SortByNameFrom(arr, i + 1)

SortByName(arr) == SortByNameFrom(arr, 1)

KeepAllNames(arr) == arr

\* arr.filter((emoji, index, self) =>
\*     index === self.findIndex((t) => t.name === emoji.name))
RECURSIVE FilterDuplicateNames(_)
FilterDuplicateNames(arr) ==
    IF arr = <<>> THEN <<>>
    ELSE LET init == FilterDuplicateNames(SubSeq(arr, 1, Len(arr) - 1))
             last == arr[Len(arr)]
         IN IF \E k \in 1..(Len(arr) - 1) : arr[k].name = last.name
            THEN init ELSE Append(init, last)

\* results.find(e => e.id === id || e.name === id) || results[0]
ExactMatchOrFirst(found, id) ==
    IF \E k \in DOMAIN found : found[k].id = id \/ found[k].name = id
    THEN found[CHOOSE k \in DOMAIN found :
                   /\ found[k].id = id \/ found[k].name = id
                   /\ \A j \in 1..(k - 1) :
                          ~(found[j].id = id \/ found[j].name = id)]
    ELSE found[1]

\* the results of the categories, each sorted, in the order the searches
\* complete
RECURSIVE AllResults(_)
AllResults(order) ==
    IF order = <<>> THEN <<>>
    ELSE SortByName(Search(EMOJI_CATEGORIES[Head(order)]))
         \o AllResults(Tail(order))

\* the orders in which the category searches complete
CategoryOrders ==
    { o \in [DOMAIN EMOJI_CATEGORIES -> DOMAIN EMOJI_CATEGORIES] :
        \A i, j \in DOMAIN o : i # j => o[i] # o[j] }

\* The last step of the suggester was not a star click.
NoClick == [id |-> "", before |-> <<>>, save |-> "none"]

InitSearch ==
    /\ favorites = <<>>
    /\ psPc = "idle"
    /\ psQuery = ""
    /\ psIndex = FALSE
    /\ psLoop = <<>>
    /\ results = <<>>
    /\ shown = {}
    /\ starClick = NoClick
    /\ psFavorites = <<>>
    /\ psRecents = <<>>

RecentsForAnyQuery(q) ==
    IF Len(recentEmojis) > 0
    THEN /\ psPc' = "recents"
         /\ psLoop' = recentEmojis
         /\ psRecents' = recentEmojis
    ELSE /\ psPc' = "search"
         /\ psLoop' = <<>>
         /\ psRecents' = <<>>

\* The loop over the recents starts for an empty query; the search section
\* follows otherwise.
AfterFavorites(q) ==
    IF q = "" /\ Len(recentEmojis) > 0
    THEN /\ psPc' = "recents"
         /\ psLoop' = recentEmojis
         /\ psRecents' = recentEmojis
    ELSE /\ psPc' = "search"
         /\ psLoop' = <<>>
         /\ psRecents' = <<>>

\* performSearch(query) is called; ok: getSearchIndex() gives the index.
PerformSearch(q, ok) ==
    /\ psPc = "idle"
    /\ pluginPhase = "loaded"
    /\ psQuery' = q
    /\ psIndex' = ok
    /\ results' = <<>>
    /\ IF Len(favorites) > 0 /\ ok
       THEN /\ psPc' = "favorites"
            /\ psLoop' = favorites
            /\ psFavorites' = favorites
            /\ psRecents' = <<>>
       ELSE /\ AfterFavorites(q)
            /\ psFavorites' = <<>>
    /\ starClick' = NoClick
    /\ UNCHANGED <<favorites, shown>>
    /\ SearchOnly

\* One iteration of the loop over the favorites.
FavoriteStep ==
    /\ psPc = "favorites"
    /\ LET favoriteId == Head(psLoop)
           favoriteResults == Search(favoriteId)
       IN results' =
            IF Len(favoriteResults) > 0
            THEN LET emoji == ExactMatchOrFirst(favoriteResults, favoriteId)
                 IN Append(results,
                           [emoji |-> emoji,
                            isRecent |-> emoji.id \in Range(recentEmojis),
                            isFavorite |-> TRUE,
                            isSearchResult |-> FALSE])
            ELSE results
    /\ IF Len(psLoop) > 1
       THEN /\ psLoop' = Tail(psLoop)
            /\ UNCHANGED <<psPc, psRecents>>
       ELSE AfterFavorites(psQuery)
    /\ starClick' = NoClick
    /\ UNCHANGED <<favorites, psQuery, psIndex, shown, psFavorites>>
    /\ SearchOnly

\* One iteration of the loop over the recents: a favorite is passed over;
\* without an index the lookup throws and the entry is passed over.
RecentStep ==
    /\ psPc = "recents"
    /\ LET emojiId == Head(psLoop)
           emojiResults == Search(emojiId)
       IN results' =
            IF /\ emojiId \notin Range(favorites)
               /\ psIndex
               /\ Len(emojiResults) > 0
            THEN Append(results,
                        [emoji |-> ExactMatchOrFirst(emojiResults, emojiId),
                         isRecent |-> TRUE,
                         isFavorite |-> FALSE,
                         isSearchResult |-> FALSE])
            ELSE results
    /\ IF Len(psLoop) > 1
       THEN /\ psLoop' = Tail(psLoop)
            /\ UNCHANGED psPc
       ELSE /\ psLoop' = <<>>
            /\ psPc' = "search"
    /\ starClick' = NoClick
    /\ UNCHANGED <<favorites, psQuery, psIndex, shown, psFavorites, psRecents>>
    /\ SearchOnly

UnflaggedSuggestions(searchResults) ==
    [ i \in DOMAIN searchResults |->
        [emoji |-> searchResults[i],
         isRecent |-> FALSE,
         isFavorite |-> FALSE,
         isSearchResult |-> TRUE] ]

\* The search results as suggestions.
SearchSuggestions(searchResults) ==
    [ i \in DOMAIN searchResults |->
        [emoji |-> searchResults[i],
         isRecent |-> searchResults[i].id \in Range(recentEmojis),
         isFavorite |-> searchResults[i].id \in Range(favorites),
         isSearchResult |-> TRUE] ]

\* The search section: searchEmojis(query) for a query, the categories for
\* the empty query; the suggestions are appended to the results.
SearchStep(order) ==
    /\ psPc = "search"
    /\ LET searchResults ==
             IF ~psIndex THEN <<>>
             ELSE IF psQuery # "" THEN Search(psQuery)
             ELSE FilterDuplicateNames(AllResults(order))
       IN results' = results \o SearchSuggestions(searchResults)
    /\ psPc' = "done"
    /\ starClick' = NoClick
    /\ UNCHANGED <<favorites, psQuery, psIndex, psLoop, shown, psFavorites,
                   psRecents>>
    /\ SearchOnly

\* renderSuggestion: isRecent && !isFavorite && !isSearchResult gives the
\* entry the recent indicator and the adding star.
HasRecentIndicator(suggestion) ==
    suggestion.isRecent /\ ~suggestion.isFavorite /\ ~suggestion.isSearchResult

\* The stars renderSuggestion draws: the emoji of each suggestion and which
\* of the two click handlers the star got.
Stars(suggestions) ==
    { [id |-> suggestions[i].emoji.id,
       addOnly |-> HasRecentIndicator(suggestions[i])] :
        i \in DOMAIN suggestions }

\* performSearch returns the results: the call and its locals are gone, and
\* renderSuggestion draws each suggestion with its star.
ReturnResults ==
    /\ psPc = "done"
    /\ psPc' = "idle"
    /\ psQuery' = ""
    /\ psIndex' = FALSE
    /\ results' = <<>>
    /\ shown' = Stars(results)
    /\ starClick' = NoClick
    /\ psFavorites' = <<>>
    /\ psRecents' = <<>>
    /\ UNCHANGED <<favorites, psLoop>>
    /\ SearchOnly

\* The click handler of the star next to the recent indicator: the emoji is
\* added to the favorites unless it is one already.
AddFavorite(id) ==
    IF id \notin Range(favorites) THEN Append(favorites, id) ELSE favorites

\* The click handler of the star of every other suggestion: the emoji is
\* removed from the favorites or added to them.
ToggleFavorite(id) ==
    IF id \in Range(favorites)
    THEN SelectSeq(favorites, LAMBDA x : x # id)
    ELSE Append(favorites, id)

\* the stars that can be rendered for the dataset
AllStars == [id : DatasetIds, addOnly : BOOLEAN]

\* saveSettings(): a saveData that throws is caught and answered with a
\* notice; the mutant lets it escape.
SaveSettingsRethrows(ok) == IF ok THEN "saved" ELSE "thrown"

SaveSettings(ok) == IF ok THEN "saved" ELSE "notice"

\* A click on a rendered star; the handler awaits saveSettings() after it
\* has assigned the favorites, the add-only handler only when it added.
StarClick(star, ok) ==
    /\ star \in shown
    /\ favorites' = IF star.addOnly
                    THEN AddFavorite(star.id)
                    ELSE ToggleFavorite(star.id)
    /\ IF star.addOnly /\ star.id \in Range(favorites)
       THEN /\ ok
            /\ starClick' = [id |-> star.id, before |-> favorites,
                             save |-> "none"]
       ELSE starClick' = [id |-> star.id, before |-> favorites,
                          save |-> SaveSettings(ok)]
    /\ UNCHANGED <<psPc, psQuery, psIndex, psLoop, results, shown, psFavorites,
                   psRecents>>
    /\ SearchOnly

NextSearch ==
    \/ LoadSettings(TRUE, TRUE)
    \/ \E id \in DatasetIds : SelectSuggestion(id, TRUE, TRUE)
    \/ \E star \in AllStars : StarClick(star, TRUE)
    \/ \E q \in Queries, ok \in BOOLEAN : PerformSearch(q, ok)
    \/ FavoriteStep
    \/ RecentStep
    \/ \E order \in CategoryOrders : SearchStep(order)
    \/ ReturnResults

\* The suggester opened on an empty query, the category searches completing
\* in the order of their calls, with writes to the local store and saves of
\* the settings that can fail.
NextSave ==
    \/ LoadSettings(TRUE, TRUE)
    \/ \E id \in DatasetIds, ok \in BOOLEAN : SelectSuggestion(id, TRUE, ok)
    \/ \E star \in AllStars, ok \in BOOLEAN : StarClick(star, ok)
    \/ PerformSearch("", TRUE)
    \/ FavoriteStep
    \/ RecentStep
    \/ SearchStep([i \in DOMAIN EMOJI_CATEGORIES |-> i])
    \/ ReturnResults

(***************************************************************************)
(* C1: the list performSearch returns never holds two entries with the     *)
(* same emoji id.                                                          *)
(***************************************************************************)
C1_NoDuplicateIds ==
    psPc = "done" =>
        \A i, j \in DOMAIN results :
            i # j => results[i].emoji.id # results[j].emoji.id

(***************************************************************************)
(* C21, as stated: a returned list holds a recents-section entry (isRecent, *)
(* not isFavorite, not isSearchResult) only when the query is empty, and   *)
(* then only for an id of the RecentList that is not in the FavoritesList. *)
(***************************************************************************)
RecentsAsStated ==
    \A i \in DOMAIN results :
        HasRecentIndicator(results[i]) =>
            /\ psQuery = ""
            /\ results[i].emoji.id \in Range(recentEmojis)
            /\ results[i].emoji.id \notin Range(favorites)

\* the step that completes the list is the step that returns it
C21_RecentsSection ==
    [][(psPc # "done" /\ psPc' = "done") => RecentsAsStated']_vars

(***************************************************************************)
(* C21, amended: a list for a non-empty query holds no recents-section     *)
(* entry, and a recents-section entry is appended only by the loop over    *)
(* the recents, for an empty query, as the emoji found for the recent id   *)
(* the loop is at, which is not in the FavoritesList at that moment.       *)
(***************************************************************************)
C21_RecentsSectionWhenExamined ==
    /\ [](psQuery # "" =>
            \A i \in DOMAIN results : ~HasRecentIndicator(results[i]))
    /\ [][\A k \in DOMAIN results' :
            (k > Len(results) /\ HasRecentIndicator(results'[k])) =>
                /\ psPc = "recents"
                /\ psQuery = ""
                /\ Head(psLoop) \notin Range(favorites)
                /\ results'[k].emoji =
                      ExactMatchOrFirst(Search(Head(psLoop)), Head(psLoop))
         ]_vars

\* recents b, a with a a favorite: the list for the empty query has the
\* favorite a (also recent) and the recents-section entry of b alone
C21_Witness ==
    /\ psPc = "done"
    /\ psQuery = ""
    /\ favorites = <<"a">>
    /\ recentEmojis = <<"b", "a">>
    /\ Len(results) >= 2
    /\ results[1].isFavorite /\ results[1].isRecent
    /\ HasRecentIndicator(results[2]) /\ results[2].emoji.id = "b"
    /\ \A i \in DOMAIN results :
          HasRecentIndicator(results[i]) => results[i].emoji.id # "a"

(***************************************************************************)
(* C22, as stated: a returned list is the favorites section in             *)
(* FavoritesList order, then the recents section in RecentList order, then *)
(* the search section; a favorites-section entry has isFavorite and has    *)
(* isRecent exactly when its id is in the RecentList; a search-section     *)
(* entry has isSearchResult, and isFavorite / isRecent by membership.      *)
(***************************************************************************)
\* the ids that resolve, and the ids of the emojis they resolve to
Found(ids) == SelectSeq(ids, LAMBDA id : Len(Search(id)) > 0)

ResolvedIds(ids) ==
    [ i \in DOMAIN Found(ids) |->
        ExactMatchOrFirst(Search(Found(ids)[i]), Found(ids)[i]).id ]

RECURSIVE IsSubSeq(_, _)
IsSubSeq(s, t) ==
    IF s = <<>> THEN TRUE
    ELSE IF t = <<>> THEN FALSE
    ELSE IF Head(s) = Head(t) THEN IsSubSeq(Tail(s), Tail(t))
    ELSE IsSubSeq(s, Tail(t))

EntryIds(entries) == [ i \in DOMAIN entries |-> entries[i].emoji.id ]

\* results is a favorites section for favs, a recents section drawn in order
\* from recs, and a search section
Sections(favs, recs) ==
    LET f == IF psIndex THEN ResolvedIds(favs) ELSE <<>>
        rest == SubSeq(results, Len(f) + 1, Len(results))
        r == SelectSeq(rest, HasRecentIndicator)
        srch == SubSeq(rest, Len(r) + 1, Len(rest))
    IN /\ Len(results) >= Len(f)
       /\ EntryIds(SubSeq(results, 1, Len(f))) = f
       /\ \A i \in 1..Len(f) :
             results[i].isFavorite /\ ~results[i].isSearchResult
       /\ SubSeq(rest, 1, Len(r)) = r
       /\ IsSubSeq(EntryIds(r), ResolvedIds(recs))
       /\ \A i \in DOMAIN srch : srch[i].isSearchResult

FlagsByMembership(entry) ==
    /\ entry.isRecent = (entry.emoji.id \in Range(recentEmojis))
    /\ entry.isSearchResult => entry.isFavorite = (entry.emoji.id \in Range(favorites))

ListAsStated ==
    /\ Sections(favorites, recentEmojis)
    /\ \A i \in DOMAIN results :
          ~HasRecentIndicator(results[i]) => FlagsByMembership(results[i])

NameRank(name) == CHOOSE i \in DOMAIN Dataset : Dataset[i].name = name

\* arr in alphabetical order of name
Alphabetical(arr) ==
    CHOOSE seg \in [DOMAIN arr -> Range(arr)] :
        /\ Range(seg) = Range(arr)
        /\ \A i, j \in DOMAIN seg :
              i < j => NameRank(seg[i].name) <= NameRank(seg[j].name)

RECURSIVE MergedCategories(_)
MergedCategories(order) ==
    IF order = <<>> THEN <<>>
    ELSE Alphabetical(Search(EMOJI_CATEGORIES[Head(order)]))
         \o MergedCategories(Tail(order))

RECURSIVE KeepFirstByName(_, _)
KeepFirstByName(arr, seen) ==
    IF arr = <<>> THEN <<>>
    ELSE IF Head(arr).name \in seen THEN KeepFirstByName(Tail(arr), seen)
    ELSE <<Head(arr)>>
         \o KeepFirstByName(Tail(arr), seen \cup {Head(arr).name})

\* the emojis of the search section the step appends
AppendedEmojis ==
    [ i \in 1..(Len(results') - Len(results)) |->
        results'[Len(results) + i].emoji ]

C35_SameForEveryCompletionOrder ==
    [][(psPc = "search" /\ psPc' = "done" /\ psQuery = "" /\ psIndex) =>
         \A order \in CategoryOrders :
             AppendedEmojis = KeepFirstByName(MergedCategories(order), {})
      ]_vars

(***************************************************************************)
(* C19: after a star click the favorites hold no id twice, the clicked     *)
(* emoji's membership is toggled (an absent id is added, a present id is   *)
(* removed) and the membership of every other id is as before the click.   *)
(***************************************************************************)
C19_StarClickToggles ==
    starClick # NoClick =>
        /\ \A i, j \in DOMAIN favorites : i # j => favorites[i] # favorites[j]
        /\ (starClick.id \in Range(favorites))
              # (starClick.id \in Range(starClick.before))
        /\ \A id \in DatasetIds \ {starClick.id} :
              (id \in Range(favorites)) = (id \in Range(starClick.before))

(***************************************************************************)
(* C31: a selection whose store write fails still leaves the selected id   *)
(* first in the RecentList and still inserts the text; a star click whose  *)
(* settings save fails is answered with a notice, never with an exception, *)
(* and the favorites still hold the toggled membership of the clicked id.  *)
(***************************************************************************)
C31_FailedSaveKeepsState ==
    /\ [][(storeFailures' > storeFailures /\ lastOp'.op = "select") =>
            /\ recentEmojis' # <<>>
            /\ recentEmojis'[1] = lastOp'.id
            /\ editorText' = TextToInsert(lastOp'.id)]_vars
    /\ [](starClick.save # "thrown")
    /\ [](starClick.save = "notice" =>
            (starClick.id \in Range(favorites))
               # (starClick.id \in Range(starClick.before)))

C31_Witness ==
    /\ storeFailures = 1
    /\ lastOp.op = "select"
    /\ recentEmojis # <<>>
    /\ recentEmojis[1] = lastOp.id
    /\ recentStore # Stringify(recentEmojis)
    /\ starClick.save = "notice"
    /\ starClick.id \in Range(starClick.before)
    /\ starClick.id \notin Range(favorites)

(***************************************************************************)
(* Skin tone resolution: getEmojiWithSkin (utils), resolveEmojiCharacter   *)
(* (rendering/emoji-renderer.ts), getEmojiWithSkinSync (the decorator).    *)
(***************************************************************************)
\* type SkinSetting = 0 | 1 | 2 | 3 | 4 | 5
SkinSettings == 0..5

\* The emoji argument: null, or an object whose skins property is missing
\* or an array; skins[i] tells whether variant i - 1 has a native glyph.
NullEmoji == [isNull |-> TRUE, hasSkins |-> FALSE, skins |-> <<>>]

EmojiWithout == [isNull |-> FALSE, hasSkins |-> FALSE, skins |-> <<>>]

EmojiWith(skins) == [isNull |-> FALSE, hasSkins |-> TRUE, skins |-> skins]

SkinEmojis ==
    {NullEmoji, EmojiWithout}
    \cup { EmojiWith(sk) : sk \in UNION { [1..n -> BOOLEAN] : n \in 0..MaxSkins } }

\* the values a call returns
NativeGlyph(variant) == [kind |-> "native", variant |-> variant]

EmojiName == [kind |-> "name", variant |-> 0]

EmptyString == [kind |-> "empty", variant |-> 0]

Null == [kind |-> "null", variant |-> 0]

NotCalled == [kind |-> "none", variant |-> 0]

\* emojiItem.skins?.[i]?.native is neither null nor undefined
HasNative(emojiItem, i) ==
    /\ emojiItem.hasSkins
    /\ i + 1 <= Len(emojiItem.skins)
    /\ emojiItem.skins[i + 1]

SkinOrName(emojiItem, skinTone) ==
    IF HasNative(emojiItem, skinTone) THEN NativeGlyph(skinTone) ELSE EmojiName

\* the body shared by getEmojiWithSkin and getEmojiWithSkinSync for an
\* emoji that is not null
SkinOrNative(emojiItem, skinTone) ==
    IF skinTone = 0 \/ ~emojiItem.hasSkins \/ Len(emojiItem.skins) <= 1
    THEN IF HasNative(emojiItem, 0) THEN NativeGlyph(0) ELSE EmojiName
    ELSE IF HasNative(emojiItem, skinTone) THEN NativeGlyph(skinTone)
    ELSE IF HasNative(emojiItem, 0) THEN NativeGlyph(0)
    ELSE EmojiName

\* getEmojiWithSkin(emojiItem, skinTone)
GetEmojiWithSkin(emojiItem, skinTone) ==
    IF emojiItem.isNull THEN EmptyString
    ELSE SkinOrNative(emojiItem, skinTone)

\* getEmojiWithSkinSync(emojiItem, skinTone)
GetEmojiWithSkinSync(emojiItem, skinTone) ==
    IF emojiItem.isNull THEN Null
    ELSE SkinOrNative(emojiItem, skinTone)

\* resolveEmojiCharacter(emojiId, skinTone) where emojiData is the entry of
\* the id in the map (null: no entry); mapOk: getEmojiMap() did not throw
ResolveEmojiCharacter(emojiData, skinTone, mapOk) ==
    IF /\ mapOk
       /\ ~emojiData.isNull
       /\ emojiData.hasSkins
       /\ Len(emojiData.skins) >= 1
    THEN GetEmojiWithSkin(emojiData, skinTone)
    ELSE Null

InitSkin ==
    /\ skPc = "input"
    /\ skEmoji = EmojiWith(<<TRUE>>)
    /\ skTone = 0
    /\ skResult = NotCalled

InitSkinInputs ==
    /\ skPc = "input"
    /\ skEmoji \in SkinEmojis
    /\ skTone \in SkinSettings
    /\ skResult = NotCalled

CallGetEmojiWithSkin ==
    /\ skPc = "input"
    /\ skPc' = "getEmojiWithSkin"
    /\ skResult' = GetEmojiWithSkin(skEmoji, skTone)
    /\ UNCHANGED <<skEmoji, skTone>>
    /\ SkinOnly

CallGetEmojiWithSkinSync ==
    /\ skPc = "input"
    /\ skPc' = "getEmojiWithSkinSync"
    /\ skResult' = GetEmojiWithSkinSync(skEmoji, skTone)
    /\ UNCHANGED <<skEmoji, skTone>>
    /\ SkinOnly

CallResolveEmojiCharacter(mapOk) ==
    /\ skPc = "input"
    /\ skPc' = IF mapOk THEN "resolveEmojiCharacter" ELSE "resolveFailed"
    /\ skResult' = ResolveEmojiCharacter(skEmoji, skTone, mapOk)
    /\ UNCHANGED <<skEmoji, skTone>>
    /\ SkinOnly

NextSkin ==
    \/ CallGetEmojiWithSkin
    \/ CallGetEmojiWithSkinSync
    \/ \E mapOk \in BOOLEAN : CallResolveEmojiCharacter(mapOk)

\* an emoji with at least one variant, every variant with a glyph
KnownEmoji(e) ==
    /\ ~e.isNull
    /\ e.hasSkins
    /\ Len(e.skins) >= 1
    /\ \A i \in DOMAIN e.skins : e.skins[i]

(***************************************************************************)
(* C12: for a skin tone t and a known emoji with k variants, each of the   *)
(* three functions returns the glyph of variant min(t, k - 1) when t > 0   *)
(* and k > 1 and the glyph of variant 0 otherwise.                         *)
(***************************************************************************)
C12_SkinResolution ==
    (/\ skPc \in {"getEmojiWithSkin", "getEmojiWithSkinSync",
                  "resolveEmojiCharacter"}
     /\ KnownEmoji(skEmoji))
        => LET k == Len(skEmoji.skins)
           IN skResult = IF skTone > 0 /\ k > 1
                         THEN NativeGlyph(Min2(skTone, k - 1))
                         ELSE NativeGlyph(0)

(***************************************************************************)
(* C23: for a skin tone t > 0 and an emoji with more than one variant but  *)
(* none at index t, each of the three functions returns the glyph of       *)
(* variant 0, or the emoji's name when variant 0 has no glyph; it never    *)
(* returns null or the empty string.                                       *)
(***************************************************************************)
C23_MissingVariantFallsBack ==
    (/\ skPc \in {"getEmojiWithSkin", "getEmojiWithSkinSync",
                  "resolveEmojiCharacter"}
     /\ ~skEmoji.isNull
     /\ skEmoji.hasSkins
     /\ Len(skEmoji.skins) > 1
     /\ skTone > 0
     /\ skTone >= Len(skEmoji.skins))
        => /\ skResult = IF skEmoji.skins[1] THEN NativeGlyph(0) ELSE EmojiName
           /\ skResult \notin {Null, EmptyString, NotCalled}

\* resolveEmojiCharacter for tone 3 and an emoji with variants 0 and 1
C23_Witness ==
    /\ skPc = "resolveEmojiCharacter"
    /\ skEmoji = EmojiWith(<<TRUE, TRUE>>)
    /\ skTone = 3
    /\ skResult = NativeGlyph(0)

(***************************************************************************)
(* One suggest session: the host asks onTrigger after every keystroke and  *)
(* cursor move and, while a session is open, has getSuggestions search for *)
(* the query of the context.  The plugin is loaded, a is a recent emoji    *)
(* and b a favorite.  The loop over the recents is entered at              *)
(* psPc = "recents" only, which C37 shows unreachable in a session.        *)
(***************************************************************************)
\* the query of a context as the string handed to performSearch; the word
\* characters typed in a session are all the letter a
QueryText(chars) ==
    IF chars = <<>> THEN ""
    ELSE <<"a", "aa", "aaa", "aaaa", "aaaaa">>[Len(chars)]

InitSession ==
    /\ InitService /\ InitSuggest /\ InitTrigger
    /\ InitStatic /\ InitLive /\ InitSkin /\ InitSkip /\ InitMap /\ InitSanitize
    /\ recentEmojis = <<"a">>
    /\ recentCount = SLIDER_MIN
    /\ recentStore = Stringify(recentEmojis)
    /\ pluginPhase = "loaded"
    /\ storeFailures = 0
    /\ selections = 1
    /\ lastOp = [op |-> "select", id |-> "a", dropped |-> FALSE]
    /\ insertionFormat = DefaultInsertionFormat
    /\ editorText = TextToInsert("a")
    /\ migration = NoMigration
    /\ favorites = <<"b">>
    /\ psPc = "idle"
    /\ psQuery = ""
    /\ psIndex = FALSE
    /\ psLoop = <<>>
    /\ results = <<>>
    /\ shown = {}
    /\ starClick = NoClick
    /\ psFavorites = <<>>
    /\ psRecents = <<>>

\* getSuggestions(context) of the open session reaches performSearch
SessionSearch(ok) ==
    /\ context # NoTrigger
    /\ PerformSearch(QueryText(context.query), ok)

NextSession ==
    \/ \E ch \in TriggerAlphabet : TypeChar(ch)
    \/ \E ch \in 0..MaxLineLen : MoveCursor(ch)
    \/ \E ok \in BOOLEAN : SessionSearch(ok)
    \/ FavoriteStep
    \/ \E order \in CategoryOrders : SearchStep(order)
    \/ ReturnResults

Init ==
    /\ InitService /\ InitSuggest /\ InitTrigger /\ InitRecentsIdle
    /\ InitStatic /\ InitLive /\ InitSearch /\ InitSkin /\ InitSkip /\ InitMap /\ InitSanitize

InitForRecents ==
    /\ InitService /\ InitSuggest /\ InitTrigger /\ InitRecents
    /\ InitStatic /\ InitLive /\ InitSearch /\ InitSkin /\ InitSkip /\ InitMap /\ InitSanitize

SpecService == Init /\ [][NextService]_vars

\* every started dataset load terminates
SpecServiceLive ==
    /\ Init /\ [][NextService]_vars
    /\ \A c \in 1..MaxCalls : WF_vars(\E ok \in BOOLEAN : LoadComplete(c, ok))

SpecSuggest == Init /\ [][NextSuggest]_vars

SpecTrigger == Init /\ [][NextTrigger]_vars

SpecRecents == InitForRecents /\ [][NextRecents]_vars

SpecStatic == Init /\ [][NextStatic]_vars

SpecLive == Init /\ [][NextLive]_vars

SpecSave == Init /\ [][NextSave]_vars

SpecSearch == Init /\ [][NextSearch]_vars

InitForSkin ==
    /\ InitService /\ InitSuggest /\ InitTrigger /\ InitRecentsIdle
    /\ InitStatic /\ InitLive /\ InitSearch /\ InitSkinInputs /\ InitSkip /\ InitMap /\ InitSanitize

SpecSkin == InitForSkin /\ [][NextSkin]_vars

InitForSkip ==
    /\ InitService /\ InitSuggest /\ InitTrigger /\ InitRecentsIdle
    /\ InitStatic /\ InitLive /\ InitSearch /\ InitSkin /\ InitSkipInputs /\ InitMap /\ InitSanitize

SpecSkip == InitForSkip /\ [][NextSkip]_vars

SpecMap == Init /\ [][NextMap]_vars

InitForSanitize ==
    /\ InitService /\ InitSuggest /\ InitTrigger /\ InitRecentsIdle
    /\ InitStatic /\ InitLive /\ InitSearch /\ InitSkin /\ InitSkip
    /\ InitMap /\ InitSanitizeInputs

SpecSanitize == InitForSanitize /\ [][NextSanitize]_vars

SpecSession == InitSession /\ [][NextSession]_vars

====
